---- MODULE Spec2Model ----
(***************************************************************************)
(* Graph layout engine of the torchview visualisation front end.           *)
(*                                                                         *)
(*   computeLayout      (layout.ts, flat absolute coordinates, SVG)        *)
(*   computeFlowLayout  (layout.ts, parent-relative, Svelte Flow)          *)
(*   findBackEdges      (DFS cycle analyser shared by both)                *)
(*   BackEdge.svelte    (loop path of a back edge in the flow renderer)    *)
(*                                                                         *)
(* The layered-DAG solver (dagre) is an external collaborator: the model   *)
(* keeps the request the code builds (g) and draws the solver's answer     *)
(* nondeterministically from small sets.                                   *)
(***************************************************************************)
EXTENDS Integers, Sequences, FiniteSets, TLC

VARIABLES
    variant,            \* "svg": computeLayout, "flow": computeFlowLayout
    nodes,              \* graphData.nodes
    edges,              \* graphData.edges
    subgraphs,          \* Object.entries(graphData.subgraphs), insertion order
    pc,                 \* position in the layout call
    outgoing,           \* findBackEdges: adjacency Map
    backEdges,          \* findBackEdges: Set of `${source}->${target}`
    visited,            \* findBackEdges: Set
    inStack,            \* findBackEdges: Set
    stack,              \* findBackEdges: the active dfs() frames
    nodeIdx,            \* findBackEdges: index of the outer for-loop
    dfsTrace,           \* history: node keys in the order dfs() was entered
    examined,           \* history: <<nodeId, i>> for every neighbors[i] the for-loop of dfs(nodeId) took
    g,                  \* the dagre graph the code builds (the solver request)
    solverRuns,         \* history: number of dagre.layout(g) calls
    dagreOut,           \* what g.node(id) answers after dagre.layout(g)
    dagreEdges,         \* what g.edge(v, w).points answers (its length)
    layoutNodes,        \* computeLayout: LayoutNode[]
    layoutEdges,        \* computeLayout: LayoutEdge[]
    subgraphBoxes,      \* computeLayout: Record<string, box>
    boxIdx,             \* computeLayout: index of the box for-loop
    padApplied,         \* history: depthPadding used for each fallback box
    absolutePositions,  \* computeFlowLayout: Map of absolute top-left boxes
    flowNodes,          \* computeFlowLayout: FlowNode[]
    flowEdges,          \* computeFlowLayout: FlowEdge[]
    width,              \* returned canvas width
    height,             \* returned canvas height
    backEdgePaths,      \* BackEdge.svelte: edgePath of every rendered back edge
    edgePaths,          \* Graph.svelte: generateEdgePath of every output edge
    edgeLabels,         \* Graph.svelte: label text and anchor of every output edge
    pageStep,           \* +page.svelte: position in the onMount callback
    modelSummary,       \* +page.svelte: $state modelSummary
    graphData,          \* +page.svelte: $state graphData
    layoutData,         \* +page.svelte: $state layoutData
    isLoading,          \* +page.svelte: $state isLoading
    error,              \* +page.svelte: $state error
    selectedNodeId,     \* +page.svelte: $state selectedNodeId
    selectedNode,       \* +page.svelte: $state selectedNode
    isDetailsPanelOpen, \* +page.svelte: $state isDetailsPanelOpen
    propLayoutData,     \* flow Graph component: the layoutData prop
    propSelectedNodeId, \* flow Graph component: the selectedNodeId prop
    stateNodes,         \* flow Graph component: $state.raw nodes
    stateEdges,         \* flow Graph component: $state.raw edges
    lastLayoutDataRef,  \* flow Graph component: reference of the last layoutData taken
    effectsPending      \* flow Graph component: the effects whose dependency changed

selVars == <<selectedNodeId, selectedNode, isDetailsPanelOpen>>
componentVars == <<propLayoutData, propSelectedNodeId, stateNodes, stateEdges, lastLayoutDataRef,
                   effectsPending>>
pageVars == <<pageStep, modelSummary, graphData, layoutData, isLoading, error, selVars, componentVars>>
inputVars == <<variant, nodes, edges, subgraphs, pageVars>>
dfsVars == <<outgoing, backEdges, visited, inStack, stack, nodeIdx, dfsTrace, examined>>
solverVars == <<g, solverRuns, dagreOut, dagreEdges>>
svgVars == <<layoutNodes, layoutEdges, subgraphBoxes, boxIdx, padApplied>>
flowVars == <<absolutePositions, flowNodes, flowEdges>>
outVars == <<width, height, backEdgePaths, edgePaths, edgeLabels>>
layoutVars == <<solverVars, svgVars, flowVars, outVars>>
vars == <<inputVars, pc, dfsVars, layoutVars>>

-----------------------------------------------------------------------------
(* Bounds of the model and the sets the inputs are drawn from.             *)

MaxNodes == 3
MaxEdges == 3

Null == "null"

\* an object reference that may be null: no value, or the object
NoValue == <<>>
Some(v) == <<v>>

NodeIds == {"a", "b", "c"}
UnknownKey == "x"
Keys == NodeIds \cup {UnknownKey}

\* nodeType of the node with a given id (in: tensor, op: function, out: tensor)
TypeOf(id) == IF id = "a" THEN "tensor" ELSE IF id = "b" THEN "function" ELSE "unknown"

Range(s) == {s[i] : i \in DOMAIN s}
Min2(p, q) == IF p <= q THEN p ELSE q
Max2(p, q) == IF p >= q THEN p ELSE q

InjectiveSeqs(S, n) ==
    UNION {{s \in [1..k -> S] : \A i, j \in 1..k : i # j => s[i] # s[j]} : k \in 0..n}

SeqsUpTo(S, n) == UNION {[1..k -> S] : k \in 0..n}

MkNode(id, sg) == [id |-> id, nodeType |-> TypeOf(id), subgraph |-> sg]
\* count is the multiplicity of the edge; the a -> b connection is a double one
MkEdge(s, t) == [source |-> s, target |-> t, count |-> IF s = "a" /\ t = "b" THEN 2 ELSE 1]

-----------------------------------------------------------------------------
(* findBackEdges                                                           *)

\* `${source}->${target}`
EdgeKey(s, t) == s \o "->" \o t

NodeIdSet(ns) == {ns[i].id : i \in DOMAIN ns}

\* SelectSeq over records: targets of the edges leaving id, in edge order
RECURSIVE TargetsOf(_, _)
TargetsOf(id, es) ==
    IF es = <<>> THEN <<>>
    ELSE IF Head(es).source = id
         THEN <<Head(es).target>> \o TargetsOf(id, Tail(es))
         ELSE TargetsOf(id, Tail(es))

\* outgoing.set(node.id, []) for every node, then out.push(edge.target) for
\* every edge whose source has an entry
Adjacency(ns, es) == [id \in NodeIdSet(ns) |-> TargetsOf(id, es)]

\* outgoing.get(nodeId) || []
Neighbors(out, nodeId) == IF nodeId \in DOMAIN out THEN out[nodeId] ELSE <<>>

Top == stack[Len(stack)]
Pop(s) == SubSeq(s, 1, Len(s) - 1)
Advance(s) == [s EXCEPT ![Len(s)].i = @ + 1]

\* inStack.delete(nodeId)
InStackAfterExit(st, nodeId) == st \ {nodeId}

\* a DFS that takes every visited neighbour for one on the stack
OnStack_Visited(neighbor) == neighbor \in visited

\* inStack.has(neighbor)
OnStack(neighbor) == neighbor \in inStack

BuildAdjacency ==
    /\ pc = "findBackEdges"
    /\ outgoing' = Adjacency(nodes, edges)
    /\ backEdges' = {}
    /\ visited' = {}
    /\ inStack' = {}
    /\ stack' = <<>>
    /\ nodeIdx' = 1
    /\ dfsTrace' = <<>>
    /\ examined' = <<>>
    /\ pc' = "dfs"
    /\ UNCHANGED <<inputVars, layoutVars>>

\* an outer loop that starts a traversal at every listed node
RootVisited_Never(id) == FALSE

\* visited.has(node.id) in the outer for-loop
RootVisited(id) == id \in visited

\* for (const node of nodes) if (!visited.has(node.id)) dfs(node.id)
DfsRoot ==
    /\ pc = "dfs" /\ stack = <<>> /\ nodeIdx <= Len(nodes)
    /\ ~RootVisited(nodes[nodeIdx].id)
    /\ visited' = visited \cup {nodes[nodeIdx].id}
    /\ inStack' = inStack \cup {nodes[nodeIdx].id}
    /\ stack' = <<[nodeId |-> nodes[nodeIdx].id, i |-> 1]>>
    /\ dfsTrace' = Append(dfsTrace, nodes[nodeIdx].id)
    /\ nodeIdx' = nodeIdx + 1
    /\ UNCHANGED <<layoutVars, inputVars, pc, outgoing, backEdges, examined>>

DfsRootSkip ==
    /\ pc = "dfs" /\ stack = <<>> /\ nodeIdx <= Len(nodes)
    /\ RootVisited(nodes[nodeIdx].id)
    /\ nodeIdx' = nodeIdx + 1
    /\ UNCHANGED <<layoutVars, inputVars, pc, outgoing, backEdges, visited, inStack, stack, dfsTrace, examined>>

\* if (inStack.has(neighbor)) backEdges.add(`${nodeId}->${neighbor}`)
DfsBackEdge ==
    /\ pc = "dfs" /\ stack # <<>>
    /\ Top.i <= Len(Neighbors(outgoing, Top.nodeId))
    /\ LET neighbor == Neighbors(outgoing, Top.nodeId)[Top.i] IN
        /\ OnStack(neighbor)
        /\ backEdges' = backEdges \cup {EdgeKey(Top.nodeId, neighbor)}
    /\ stack' = Advance(stack)
    /\ examined' = Append(examined, <<Top.nodeId, Top.i>>)
    /\ UNCHANGED <<layoutVars, inputVars, pc, outgoing, visited, inStack, nodeIdx, dfsTrace>>

\* else if (!visited.has(neighbor)) dfs(neighbor)
DfsRecurse ==
    /\ pc = "dfs" /\ stack # <<>>
    /\ Top.i <= Len(Neighbors(outgoing, Top.nodeId))
    /\ LET neighbor == Neighbors(outgoing, Top.nodeId)[Top.i] IN
        /\ ~OnStack(neighbor)
        /\ neighbor \notin visited
        /\ visited' = visited \cup {neighbor}
        /\ inStack' = inStack \cup {neighbor}
        /\ stack' = Append(Advance(stack), [nodeId |-> neighbor, i |-> 1])
        /\ dfsTrace' = Append(dfsTrace, neighbor)
    /\ examined' = Append(examined, <<Top.nodeId, Top.i>>)
    /\ UNCHANGED <<layoutVars, inputVars, pc, outgoing, backEdges, nodeIdx>>

\* neighbor already finished: neither branch is taken
DfsSkipVisited ==
    /\ pc = "dfs" /\ stack # <<>>
    /\ Top.i <= Len(Neighbors(outgoing, Top.nodeId))
    /\ LET neighbor == Neighbors(outgoing, Top.nodeId)[Top.i] IN
        /\ ~OnStack(neighbor)
        /\ neighbor \in visited
    /\ stack' = Advance(stack)
    /\ examined' = Append(examined, <<Top.nodeId, Top.i>>)
    /\ UNCHANGED <<layoutVars, inputVars, pc, outgoing, backEdges, visited, inStack, nodeIdx, dfsTrace>>

\* end of the for-loop of dfs(nodeId): inStack.delete(nodeId), return
DfsExit ==
    /\ pc = "dfs" /\ stack # <<>>
    /\ Top.i > Len(Neighbors(outgoing, Top.nodeId))
    /\ inStack' = InStackAfterExit(inStack, Top.nodeId)
    /\ stack' = Pop(stack)
    /\ UNCHANGED <<layoutVars, inputVars, pc, outgoing, backEdges, visited, nodeIdx, dfsTrace, examined>>

\* return backEdges
DfsReturn ==
    /\ pc = "dfs" /\ stack = <<>> /\ nodeIdx > Len(nodes)
    /\ pc' = "backEdgesKnown"
    /\ UNCHANGED <<inputVars, dfsVars, layoutVars>>

FindBackEdgesStep ==
    \/ BuildAdjacency
    \/ DfsRoot
    \/ DfsRootSkip
    \/ DfsBackEdge
    \/ DfsRecurse
    \/ DfsSkipVisited
    \/ DfsExit
    \/ DfsReturn

DfsUnset ==
    /\ outgoing = <<>>
    /\ backEdges = {}
    /\ visited = {}
    /\ inStack = {}
    /\ stack = <<>>
    /\ nodeIdx = 1
    /\ dfsTrace = <<>>
    /\ examined = <<>>

\* the $state initialisers of the page
PageUnset ==
    /\ pageStep = "unmounted"
    /\ modelSummary = Null
    /\ graphData = NoValue
    /\ layoutData = NoValue
    /\ selectedNodeId = Null
    /\ selectedNode = NoValue
    /\ isDetailsPanelOpen = FALSE
    /\ isLoading = TRUE
    /\ error = Null

\* the flow Graph component is not mounted
ComponentUnmounted ==
    /\ propLayoutData = NoValue
    /\ propSelectedNodeId = Null
    /\ stateNodes = <<>>
    /\ stateEdges = <<>>
    /\ lastLayoutDataRef = 0
    /\ effectsPending = {}

\* nothing of the layout has been computed yet
LayoutUnset ==
    /\ g = [nodes |-> <<>>, parent |-> <<>>, dims |-> <<>>, edges |-> <<>>]
    /\ solverRuns = 0
    /\ dagreOut = <<>>
    /\ dagreEdges = <<>>
    /\ layoutNodes = <<>>
    /\ layoutEdges = <<>>
    /\ subgraphBoxes = <<>>
    /\ boxIdx = 1
    /\ padApplied = <<>>
    /\ absolutePositions = <<>>
    /\ flowNodes = <<>>
    /\ flowEdges = <<>>
    /\ width = 0
    /\ height = 0
    /\ backEdgePaths = <<>>
    /\ edgePaths = <<>>
    /\ edgeLabels = <<>>

-----------------------------------------------------------------------------
(* findBackEdges called on its own, over every bounded node and edge list  *)

CycleNodeLists == {[i \in DOMAIN s |-> MkNode(s[i], Null)] : s \in InjectiveSeqs(NodeIds, MaxNodes)}
CycleEdgeLists == {[i \in DOMAIN s |-> MkEdge(s[i][1], s[i][2])] : s \in SeqsUpTo(Keys \X Keys, MaxEdges)}

InitCycle ==
    /\ variant = "svg"
    /\ nodes \in CycleNodeLists
    /\ edges \in CycleEdgeLists
    /\ subgraphs = <<>>
    /\ pc = "findBackEdges"
    /\ DfsUnset
    /\ LayoutUnset
    /\ PageUnset
    /\ ComponentUnmounted

NextCycle == FindBackEdgesStep

SpecCycle == InitCycle /\ [][NextCycle]_vars

\* findBackEdges is synchronous code: it keeps running until it returns
SpecCycleFair == SpecCycle /\ WF_vars(NextCycle)

-----------------------------------------------------------------------------
(* Layout constants                                                        *)

NODE_WIDTH == 200
NODE_HEIGHT == 80
TENSOR_WIDTH == 160
TENSOR_HEIGHT == 60
SUBGRAPH_PADDING == 20
FLOW_NODE_WIDTH == 200
FLOW_NODE_HEIGHT == 160
FLOW_SUBGRAPH_PADDING == 40
MIN_WIDTH == 800
MIN_HEIGHT == 600
CANVAS_MARGIN == 100
LOOP_OFFSET == 60

\* a value the solver left undefined
Undefined == 0 - 1000000

\* getNodeDimensions of computeLayout
\* getNodeDimensions without the test of the node type
getNodeDimensions_AlwaysStandard(nodeType) ==
    [width |-> NODE_WIDTH, height |-> NODE_HEIGHT]

\* getNodeDimensions of computeLayout
getNodeDimensions(nodeType) ==
    IF nodeType = "tensor"
    THEN [width |-> TENSOR_WIDTH, height |-> TENSOR_HEIGHT]
    ELSE [width |-> NODE_WIDTH, height |-> NODE_HEIGHT]

\* getNodeDimensions of computeFlowLayout
getFlowNodeDimensions(nodeType) ==
    [width |-> FLOW_NODE_WIDTH, height |-> FLOW_NODE_HEIGHT]

Dims(v, nodeType) ==
    IF v = "svg" THEN getNodeDimensions(nodeType) ELSE getFlowNodeDimensions(nodeType)

-----------------------------------------------------------------------------
(* The container map                                                       *)

SubgraphIds == {subgraphs[i].id : i \in DOMAIN subgraphs}

\* subgraphs[key]
SubgraphOf(key) == CHOOSE e \in Range(subgraphs) : e.id = key

\* sgInfo.parent && subgraphs[sgInfo.parent], node.subgraph && subgraphs[node.subgraph]
ParentExists(key) == key # Null /\ key \in SubgraphIds

\* insert e after the entries that do not sort after it (Array.sort is stable);
\* dir = 1 compares (a.depth || 0) - (b.depth || 0), dir = -1 the reverse
RECURSIVE InsertSorted(_, _, _)
InsertSorted(e, s, dir) ==
    IF s = <<>> THEN <<e>>
    ELSE IF dir * e.depth < dir * Head(s).depth THEN <<e>> \o s
         ELSE <<Head(s)>> \o InsertSorted(e, Tail(s), dir)

RECURSIVE StableSort(_, _)
StableSort(s, dir) ==
    IF s = <<>> THEN <<>>
    ELSE InsertSorted(s[Len(s)], StableSort(SubSeq(s, 1, Len(s) - 1), dir), dir)

\* the entries in the order of Object.entries, without the sort
sortedSubgraphEntries_Unsorted == subgraphs

sortedSubgraphEntries == StableSort(subgraphs, 1)
sortedSubgraphsForBoxes == StableSort(subgraphs, 0 - 1)

-----------------------------------------------------------------------------
(* The solver request                                                      *)

\* the for-loop over sortedSubgraphEntries: g.setNode(sgId, ...)
RegisteredSubgraphs == [i \in DOMAIN sortedSubgraphEntries |-> sortedSubgraphEntries[i].id]

\* the for-loop over nodes: g.setNode(node.id, {width, height})
RegisteredNodes == [i \in DOMAIN nodes |-> nodes[i].id]

\* g.setParent for every container and node whose parent is in the map
RegisteredParents ==
    [k \in {e.id : e \in {d \in Range(subgraphs) : ParentExists(d.parent)}}
           \cup {n.id : n \in {m \in Range(nodes) : ParentExists(m.subgraph)}} |->
        IF k \in SubgraphIds THEN SubgraphOf(k).parent
        ELSE (CHOOSE n \in Range(nodes) : n.id = k).subgraph]

RegisteredDims ==
    [k \in NodeIdSet(nodes) |-> Dims(variant, (CHOOSE n \in Range(nodes) : n.id = k).nodeType)]

\* weight: edge.count || 1
EdgeWeight(e) == IF e.count = 0 THEN 1 ELSE e.count

\* the edge is handed to g.setEdge
IsRegisteredEdge(e, be) == EdgeKey(e.source, e.target) \notin be

RECURSIVE RegisteredEdges(_, _)
RegisteredEdges(es, be) ==
    IF es = <<>> THEN <<>>
    ELSE (IF IsRegisteredEdge(Head(es), be)
          THEN <<[v |-> Head(es).source, w |-> Head(es).target, weight |-> EdgeWeight(Head(es))]>>
          ELSE <<>>) \o RegisteredEdges(Tail(es), be)

\* a layout that never takes the empty-graph shortcut
IsEmptyGraph_Never == FALSE

\* nodes.length === 0
IsEmptyGraph == Len(nodes) = 0

\* if (nodes.length === 0) return { nodes: [], edges: [], ..., width: 800, height: 600 }
ReturnEmpty ==
    /\ pc = "start"
    /\ IsEmptyGraph
    /\ width' = MIN_WIDTH
    /\ height' = MIN_HEIGHT
    /\ pc' = "done"
    /\ UNCHANGED <<inputVars, dfsVars, solverVars, svgVars, flowVars, backEdgePaths, edgePaths, edgeLabels>>

\* const backEdges = findBackEdges(nodes, edges)
CallFindBackEdges ==
    /\ pc = "start"
    /\ ~IsEmptyGraph
    /\ pc' = "findBackEdges"
    /\ UNCHANGED <<inputVars, dfsVars, layoutVars>>

\* new dagre.graphlib.Graph, setNode / setParent / setEdge
BuildGraph ==
    /\ pc = "backEdgesKnown"
    /\ g' = [nodes |-> RegisteredSubgraphs \o RegisteredNodes,
             parent |-> RegisteredParents,
             dims |-> RegisteredDims,
             edges |-> RegisteredEdges(edges, backEdges)]
    /\ pc' = "solve"
    /\ UNCHANGED <<inputVars, dfsVars, solverRuns, dagreOut, dagreEdges, svgVars, flowVars, outVars>>

-----------------------------------------------------------------------------
(* The solver: dagre.layout(g)                                             *)

\* centre coordinates the solver may give the leaves
LetterPlacements ==
    { [a |-> [x |-> 150, y |-> 130], b |-> [x |-> 470, y |-> 130], c |-> [x |-> 790, y |-> 130]],
      [a |-> [x |-> 790, y |-> 330], b |-> [x |-> 470, y |-> 130], c |-> [x |-> 150, y |-> 230]],
      [a |-> [x |-> 150, y |-> 130], b |-> [x |-> 150, y |-> 330], c |-> [x |-> 150, y |-> 530]] }

\* the same placements, with centres for the two node ids that hold a hyphen
Placements ==
    {p @@ ("a-b" :> [x |-> 150, y |-> 730] @@ "b-c" :> [x |-> 470, y |-> 730]) : p \in LetterPlacements}

\* space the solver leaves between a cluster's border and its content
SolverMargins == {10, 30}

GParent(k) == IF k \in DOMAIN g.parent THEN g.parent[k] ELSE Null
GLeaves == NodeIdSet(nodes)
GClusters == SubgraphIds \ GLeaves
GChildren(c) == {k \in DOMAIN g.parent : g.parent[k] = c}

RECURSIVE HasLeaves(_)
HasLeaves(c) ==
    \E k \in GChildren(c) : k \in GLeaves \/ (k \in GClusters /\ HasLeaves(k))

LeafRect(place, k) ==
    [l |-> place[k].x - g.dims[k].width \div 2, t |-> place[k].y - g.dims[k].height \div 2,
     r |-> place[k].x + g.dims[k].width \div 2, b |-> place[k].y + g.dims[k].height \div 2]

SetMin(S) == CHOOSE m \in S : \A o \in S : m <= o
SetMax(S) == CHOOSE m \in S : \A o \in S : m >= o

\* the border the solver draws around a cluster that has content
RECURSIVE ClusterRect(_, _, _)
ClusterRect(place, m, c) ==
    LET inner == {LeafRect(place, k) : k \in GChildren(c) \cap GLeaves}
                 \cup {ClusterRect(place, m, k) : k \in {d \in GChildren(c) \cap GClusters : HasLeaves(d)}}
    IN [l |-> SetMin({q.l : q \in inner}) - m, t |-> SetMin({q.t : q \in inner}) - m,
        r |-> SetMax({q.r : q \in inner}) + m, b |-> SetMax({q.b : q \in inner}) + m]

NoGeometry == [x |-> Undefined, y |-> Undefined, width |-> Undefined, height |-> Undefined]

Centered(q) ==
    [x |-> (q.l + q.r) \div 2, y |-> (q.t + q.b) \div 2, width |-> q.r - q.l, height |-> q.b - q.t]

\* g.node(k) after the layout: every leaf has a centre; a cluster has a centre
\* and a size when it is in `sized`, and no usable geometry otherwise
SolverAnswer(place, m, sized) ==
    [k \in GLeaves \cup GClusters |->
        IF k \in GLeaves
        THEN [x |-> place[k].x, y |-> place[k].y, width |-> g.dims[k].width, height |-> g.dims[k].height]
        ELSE IF k \in sized THEN Centered(ClusterRect(place, m, k)) ELSE NoGeometry]

Solve ==
    /\ pc = "solve"
    /\ \E place \in Placements, m \in SolverMargins, sized \in SUBSET {c \in GClusters : HasLeaves(c)} :
        dagreOut' = SolverAnswer(place, m, sized)
    /\ solverRuns' = solverRuns + 1
    /\ pc' = IF variant = "svg" THEN "layoutNodes" ELSE "absolutePositions"
    /\ UNCHANGED <<inputVars, dfsVars, g, dagreEdges, svgVars, flowVars, outVars>>

-----------------------------------------------------------------------------
(* computeLayout: nodes, edges, container boxes, canvas                    *)

MaxRoute == 3
LABEL_BAND == 18

\* const dagreNode = g.node(id)
HasDagreNode(k) == k \in DOMAIN dagreOut

\* JavaScript arithmetic: an undefined or NaN operand makes the result NaN
\* (Undefined stands for both); Math.min and Math.max likewise
IsNaN(v) == v = Undefined
Add(p, q) == IF IsNaN(p) \/ IsNaN(q) THEN Undefined ELSE p + q
Sub(p, q) == IF IsNaN(p) \/ IsNaN(q) THEN Undefined ELSE p - q
MathMin(S) == IF Undefined \in S THEN Undefined ELSE SetMin(S)
MathMax(S) == IF Undefined \in S THEN Undefined ELSE SetMax(S)

\* dagreNode ? dagreNode.x - dims.width / 2 : 0
TopLeftX(k, dims) == IF HasDagreNode(k) THEN Sub(dagreOut[k].x, dims.width \div 2) ELSE 0
TopLeftY(k, dims) == IF HasDagreNode(k) THEN Sub(dagreOut[k].y, dims.height \div 2) ELSE 0

LayoutNodeOf(node) ==
    LET dims == getNodeDimensions(node.nodeType) IN
    [id |-> node.id, nodeType |-> node.nodeType, subgraph |-> node.subgraph,
     x |-> TopLeftX(node.id, dims), y |-> TopLeftY(node.id, dims),
     width |-> dims.width, height |-> dims.height]

ExtractNodes ==
    /\ pc = "layoutNodes"
    /\ layoutNodes' = [i \in DOMAIN nodes |-> LayoutNodeOf(nodes[i])]
    /\ pc' = "layoutEdges"
    /\ UNCHANGED <<inputVars, dfsVars, solverVars, layoutEdges, subgraphBoxes, boxIdx,
                   padApplied, flowVars, outVars>>

\* nodeMap.get(id): the last layout node with that id
InNodeMap(k) == \E i \in DOMAIN layoutNodes : layoutNodes[i].id = k
NodeMapGet(k) ==
    layoutNodes[CHOOSE i \in DOMAIN layoutNodes :
        /\ layoutNodes[i].id = k
        /\ \A j \in DOMAIN layoutNodes : layoutNodes[j].id = k => j <= i]

\* right-centre of the source, left-centre of the target
SourceAnchor(n) == [x |-> Add(n.x, n.width), y |-> Add(n.y, n.height \div 2)]
TargetAnchor(n) == [x |-> n.x, y |-> Add(n.y, n.height \div 2)]

\* the loop laid from the lower of the two anchors instead of the upper
BackEdgePoints_FromLowerAnchor(sourceNode, targetNode) ==
    LET start == SourceAnchor(sourceNode)
        end == TargetAnchor(targetNode)
        top == Sub(MathMax({start.y, end.y}), LOOP_OFFSET)
    IN << [x |-> start.x, y |-> start.y],
          [x |-> Add(start.x, LOOP_OFFSET), y |-> start.y],
          [x |-> Add(start.x, LOOP_OFFSET), y |-> top],
          [x |-> Sub(end.x, LOOP_OFFSET), y |-> top],
          [x |-> Sub(end.x, LOOP_OFFSET), y |-> end.y],
          [x |-> end.x, y |-> end.y] >>

\* the six points of a back edge
BackEdgePoints(sourceNode, targetNode) ==
    LET start == SourceAnchor(sourceNode)
        end == TargetAnchor(targetNode)
        top == Sub(MathMin({start.y, end.y}), LOOP_OFFSET)
    IN << [x |-> start.x, y |-> start.y],
          [x |-> Add(start.x, LOOP_OFFSET), y |-> start.y],
          [x |-> Add(start.x, LOOP_OFFSET), y |-> top],
          [x |-> Sub(end.x, LOOP_OFFSET), y |-> top],
          [x |-> Sub(end.x, LOOP_OFFSET), y |-> end.y],
          [x |-> end.x, y |-> end.y] >>

\* the two-point connector
FallbackPoints(sourceNode, targetNode) ==
    << SourceAnchor(sourceNode), TargetAnchor(targetNode) >>

\* the n route points the solver computed for the edge v -> w
SolverRoute(v, w, n) ==
    [k \in 1..n |->
        [x |-> IF IsNaN(dagreOut[v].x) \/ IsNaN(dagreOut[w].x) THEN Undefined
               ELSE dagreOut[v].x + (k * (dagreOut[w].x - dagreOut[v].x)) \div (n + 1),
         y |-> Add(dagreOut[v].y, 10 * k)]]

\* if (!sourceNode || !targetNode) return null
EdgeResolves(e) == InNodeMap(e.source) /\ InNodeMap(e.target)

\* the lookup made with the key of the reversed edge
IsBackEdge_Reversed(e) == EdgeKey(e.target, e.source) \in backEdges

\* backEdges.has(`${edge.source}->${edge.target}`)
IsBackEdge(e) == EdgeKey(e.source, e.target) \in backEdges

\* an edge mapper that never consults g.edge(source, target)
LayoutEdgeOf_IgnoresRoute(e, routes) ==
    IF IsBackEdge(e)
    THEN [source |-> e.source, target |-> e.target, count |-> e.count, isBackEdge |-> TRUE,
          points |-> BackEdgePoints(NodeMapGet(e.source), NodeMapGet(e.target))]
    ELSE [source |-> e.source, target |-> e.target, count |-> e.count, isBackEdge |-> FALSE,
          points |-> FallbackPoints(NodeMapGet(e.source), NodeMapGet(e.target))]

\* the callback of edges.map: back edge, solver route, or two-point fallback
LayoutEdgeOf(e, routes) ==
    IF IsBackEdge(e)
    THEN [source |-> e.source, target |-> e.target, count |-> e.count, isBackEdge |-> TRUE,
          points |-> BackEdgePoints(NodeMapGet(e.source), NodeMapGet(e.target))]
    ELSE IF routes[<<e.source, e.target>>] > 0
    THEN [source |-> e.source, target |-> e.target, count |-> e.count, isBackEdge |-> FALSE,
          points |-> SolverRoute(e.source, e.target, routes[<<e.source, e.target>>])]
    ELSE [source |-> e.source, target |-> e.target, count |-> e.count, isBackEdge |-> FALSE,
          points |-> FallbackPoints(NodeMapGet(e.source), NodeMapGet(e.target))]

\* edges.map(...).filter(e => e !== null)
RECURSIVE LayoutEdgesOf(_, _)
LayoutEdgesOf(es, routes) ==
    IF es = <<>> THEN <<>>
    ELSE (IF EdgeResolves(Head(es)) THEN <<LayoutEdgeOf(Head(es), routes)>> ELSE <<>>)
         \o LayoutEdgesOf(Tail(es), routes)

\* the pairs g.edge(source, target) is asked for
RoutedPairs ==
    {<<e.source, e.target>> : e \in {d \in Range(edges) : EdgeResolves(d) /\ ~IsBackEdge(d)}}

ExtractEdges ==
    /\ pc = "layoutEdges"
    /\ \E routes \in [RoutedPairs -> 0..MaxRoute] :
        /\ dagreEdges' = routes
        /\ layoutEdges' = LayoutEdgesOf(edges, routes)
    /\ boxIdx' = 1
    /\ pc' = "boxes"
    /\ UNCHANGED <<inputVars, dfsVars, g, solverRuns, dagreOut, layoutNodes, subgraphBoxes,
                   padApplied, flowVars, outVars>>

\* childSubgraphs.get(sgId): the containers that declare sgId as their parent
ChildSubgraphs(sgId) == {e.id : e \in {d \in Range(subgraphs) : d.parent # Null /\ d.parent = sgId}}

\* the Set childSubgraphs.get(sgId) in its iteration order (insertion order)
ChildSequence(sgId) ==
    LET Declares(e) == e.id \in ChildSubgraphs(sgId)
        kept == SelectSeq(subgraphs, Declares)
    IN  [i \in DOMAIN kept |-> kept[i].id]

\* while (queue.length > 0) { current = queue.shift(); for (child of children)
\* { descendants.add(child); queue.push(child) } }
RECURSIVE DescendantsFrom(_, _)
DescendantsFrom(queue, descendants) ==
    IF queue = <<>> THEN descendants
    ELSE DescendantsFrom(Tail(queue) \o ChildSequence(Head(queue)),
                         descendants \cup ChildSubgraphs(Head(queue)))

\* a lookup that stops at the direct children
getAllDescendantSubgraphs_ChildrenOnly(sgId) == ChildSubgraphs(sgId)

\* getAllDescendantSubgraphs(sgId): const queue = [sgId]
getAllDescendantSubgraphs(sgId) == DescendantsFrom(<<sgId>>, {})

\* dagreSubgraph && dagreSubgraph.width && dagreSubgraph.height
SolverSized(sgId) ==
    /\ HasDagreNode(sgId)
    /\ dagreOut[sgId].width # Undefined /\ dagreOut[sgId].width # 0
    /\ dagreOut[sgId].height # Undefined /\ dagreOut[sgId].height # 0

\* the padding without the clamp of the depth to 5
depthPadding_Unclamped(depth) ==
    SUBGRAPH_PADDING + (5 - (IF depth = 0 THEN 1 ELSE depth)) * 4

\* SUBGRAPH_PADDING + (5 - Math.min(sgInfo.depth || 1, 5)) * 4
depthPadding(depth) ==
    SUBGRAPH_PADDING + (5 - Min2(IF depth = 0 THEN 1 ELSE depth, 5)) * 4

\* an aggregation that looks at the directly owned nodes only
AllNodesOf_DirectOnly(sgId) == {n \in Range(layoutNodes) : n.subgraph = sgId}

\* directNodes and descendantNodes
AllNodesOf(sgId) ==
    {n \in Range(layoutNodes) : n.subgraph = sgId}
    \cup {n \in Range(layoutNodes) : n.subgraph # Null /\ n.subgraph \in getAllDescendantSubgraphs(sgId)}

\* the child boxes already in subgraphBoxes
ChildBoxesOf(sgId, boxes) == {boxes[c] : c \in ChildSubgraphs(sgId) \cap DOMAIN boxes}

SolverBox(sg) ==
    LET d == dagreOut[sg.id] IN
    [x |-> Sub(d.x, d.width \div 2), y |-> Sub(d.y, d.height \div 2),
     width |-> d.width, height |-> d.height, depth |-> sg.depth, parent |-> sg.parent]

FallbackBox(sg, boxes) ==
    LET all == AllNodesOf(sg.id)
        kids == ChildBoxesOf(sg.id, boxes)
        minX == MathMin({n.x : n \in all} \cup {q.x : q \in kids})
        minY == MathMin({n.y : n \in all} \cup {q.y : q \in kids})
        maxX == MathMax({Add(n.x, n.width) : n \in all} \cup {Add(q.x, q.width) : q \in kids})
        maxY == MathMax({Add(n.y, n.height) : n \in all} \cup {Add(q.y, q.height) : q \in kids})
        pad == depthPadding(sg.depth)
    IN [x |-> Sub(minX, pad), y |-> Sub(minY, pad + LABEL_BAND),
        width |-> Add(Sub(maxX, minX), pad * 2), height |-> Add(Sub(maxY, minY), pad * 2 + LABEL_BAND),
        depth |-> sg.depth, parent |-> sg.parent]

\* f with key k set to v
Put(f, k, v) == [q \in DOMAIN f \cup {k} |-> IF q = k THEN v ELSE f[q]]

CurrentBoxEntry == sortedSubgraphsForBoxes[boxIdx]

BoxFromSolver ==
    /\ pc = "boxes" /\ boxIdx <= Len(subgraphs)
    /\ SolverSized(CurrentBoxEntry.id)
    /\ subgraphBoxes' = Put(subgraphBoxes, CurrentBoxEntry.id, SolverBox(CurrentBoxEntry))
    /\ boxIdx' = boxIdx + 1
    /\ UNCHANGED <<inputVars, pc, dfsVars, solverVars, layoutNodes, layoutEdges, padApplied,
                   flowVars, outVars>>

BoxFallback ==
    /\ pc = "boxes" /\ boxIdx <= Len(subgraphs)
    /\ ~SolverSized(CurrentBoxEntry.id)
    /\ AllNodesOf(CurrentBoxEntry.id) # {}
    /\ subgraphBoxes' = Put(subgraphBoxes, CurrentBoxEntry.id, FallbackBox(CurrentBoxEntry, subgraphBoxes))
    /\ padApplied' = Put(padApplied, CurrentBoxEntry.id, depthPadding(CurrentBoxEntry.depth))
    /\ boxIdx' = boxIdx + 1
    /\ UNCHANGED <<inputVars, pc, dfsVars, solverVars, layoutNodes, layoutEdges, flowVars, outVars>>

\* if (allNodes.length === 0) continue
BoxOmitted ==
    /\ pc = "boxes" /\ boxIdx <= Len(subgraphs)
    /\ ~SolverSized(CurrentBoxEntry.id)
    /\ AllNodesOf(CurrentBoxEntry.id) = {}
    /\ boxIdx' = boxIdx + 1
    /\ UNCHANGED <<inputVars, pc, dfsVars, solverVars, layoutNodes, layoutEdges, subgraphBoxes,
                   padApplied, flowVars, outVars>>

\* let maxX = 0; maxX = Math.max(maxX, node.x + node.width) ...
ExtentX == MathMax({0} \cup {Add(n.x, n.width) : n \in Range(layoutNodes)}
                       \cup {Add(subgraphBoxes[c].x, subgraphBoxes[c].width) : c \in DOMAIN subgraphBoxes})
ExtentY == MathMax({0} \cup {Add(n.y, n.height) : n \in Range(layoutNodes)}
                       \cup {Add(subgraphBoxes[c].y, subgraphBoxes[c].height) : c \in DOMAIN subgraphBoxes})

\* a canvas returned without the margin
CanvasWidth_NoMargin == ExtentX

\* width: maxX + 100, height: maxY + 100
CanvasWidth == Add(ExtentX, CANVAS_MARGIN)
CanvasHeight == Add(ExtentY, CANVAS_MARGIN)

ReturnLayout ==
    /\ pc = "boxes" /\ boxIdx > Len(subgraphs)
    /\ width' = CanvasWidth
    /\ height' = CanvasHeight
    /\ pc' = "done"
    /\ UNCHANGED <<inputVars, dfsVars, solverVars, svgVars, flowVars, backEdgePaths, edgePaths, edgeLabels>>

-----------------------------------------------------------------------------
(* computeFlowLayout: absolute positions, flow nodes, flow edges, canvas   *)

GROUP_DEFAULT_WIDTH == 200
GROUP_DEFAULT_HEIGHT == 100

\* safeNum(value, fallback)
safeNum(value, fallback) == IF value = Undefined THEN fallback ELSE value

\* first pass: the containers
GroupAbsolute(k) ==
    LET w == safeNum(dagreOut[k].width, GROUP_DEFAULT_WIDTH)
        h == safeNum(dagreOut[k].height, GROUP_DEFAULT_HEIGHT)
    IN [x |-> safeNum(dagreOut[k].x, 0) - w \div 2, y |-> safeNum(dagreOut[k].y, 0) - h \div 2,
        width |-> w, height |-> h]

\* second pass: the regular nodes
NodeAbsolute(node) ==
    LET dims == getFlowNodeDimensions(node.nodeType) IN
    IF HasDagreNode(node.id)
    THEN [x |-> safeNum(dagreOut[node.id].x, 0) - dims.width \div 2,
          y |-> safeNum(dagreOut[node.id].y, 0) - dims.height \div 2,
          width |-> dims.width, height |-> dims.height]
    ELSE [x |-> 0, y |-> 0, width |-> dims.width, height |-> dims.height]

AbsolutePositionsOf ==
    [k \in {c \in SubgraphIds : HasDagreNode(c)} \cup NodeIdSet(nodes) |->
        IF k \in NodeIdSet(nodes)
        THEN NodeAbsolute(CHOOSE n \in Range(nodes) : n.id = k)
        ELSE GroupAbsolute(k)]

ComputeAbsolutePositions ==
    /\ pc = "absolutePositions"
    /\ absolutePositions' = AbsolutePositionsOf
    /\ pc' = "flowNodes"
    /\ UNCHANGED <<inputVars, dfsVars, solverVars, svgVars, flowNodes, flowEdges, outVars>>

\* a parentId taken from the input without looking the key up in the map
ParentIdOf_Unchecked(key) == key

\* sgInfo.parent && subgraphs[sgInfo.parent] ? sgInfo.parent : undefined
ParentIdOf(key) == IF ParentExists(key) THEN key ELSE Null

\* a conversion that leaves every entity in canvas coordinates
RelativePosition_Absolute(absPos, parentId) == [x |-> absPos.x, y |-> absPos.y]

\* position relative to the parent when the parent has an absolute position
RelativePosition(absPos, parentId) ==
    IF parentId # Null /\ parentId \in DOMAIN absolutePositions
    THEN [x |-> absPos.x - absolutePositions[parentId].x, y |-> absPos.y - absolutePositions[parentId].y]
    ELSE [x |-> absPos.x, y |-> absPos.y]

FlowNodeOf(id, type, declaredParent) ==
    LET absPos == absolutePositions[id]
        parentId == ParentIdOf(declaredParent)
        pos == RelativePosition(absPos, parentId)
    IN [id |-> id, type |-> type, position |-> [x |-> safeNum(pos.x, 0), y |-> safeNum(pos.y, 0)],
        parentId |-> parentId, width |-> absPos.width, height |-> absPos.height]

\* for (const [sgId, sgInfo] of sortedSubgraphsForNodes) { if (!absPos) continue; ... }
RECURSIVE GroupFlowNodes(_)
GroupFlowNodes(es) ==
    IF es = <<>> THEN <<>>
    ELSE (IF Head(es).id \in DOMAIN absolutePositions
          THEN <<FlowNodeOf(Head(es).id, "group", Head(es).parent)>>
          ELSE <<>>) \o GroupFlowNodes(Tail(es))

\* for (const node of nodes) { if (!absPos) continue; ... }
RECURSIVE LeafFlowNodes(_)
LeafFlowNodes(ns) ==
    IF ns = <<>> THEN <<>>
    ELSE (IF Head(ns).id \in DOMAIN absolutePositions
          THEN <<FlowNodeOf(Head(ns).id, Head(ns).nodeType, Head(ns).subgraph)>>
          ELSE <<>>) \o LeafFlowNodes(Tail(ns))

BuildFlowNodes ==
    /\ pc = "flowNodes"
    /\ flowNodes' = GroupFlowNodes(sortedSubgraphEntries) \o LeafFlowNodes(nodes)
    /\ pc' = "flowEdges"
    /\ UNCHANGED <<inputVars, dfsVars, solverVars, svgVars, absolutePositions, flowEdges, outVars>>

\* `${edge.source}-${edge.target}`
FlowEdgeId(s, t) == s \o "-" \o t

FlowEdgeOf(e) ==
    [id |-> FlowEdgeId(e.source, e.target), source |-> e.source, target |-> e.target,
     type |-> IF IsBackEdge(e) THEN "back" ELSE "default",
     count |-> e.count, isBackEdge |-> IsBackEdge(e)]

\* edges.map(...)
FlowEdgesOf(es) == [i \in DOMAIN es |-> FlowEdgeOf(es[i])]

BuildFlowEdges ==
    /\ pc = "flowEdges"
    /\ flowEdges' = FlowEdgesOf(edges)
    /\ pc' = "flowReturn"
    /\ UNCHANGED <<inputVars, dfsVars, solverVars, svgVars, absolutePositions, flowNodes, outVars>>

FlowExtentX == SetMax({0} \cup {absolutePositions[k].x + absolutePositions[k].width : k \in DOMAIN absolutePositions})
FlowExtentY == SetMax({0} \cup {absolutePositions[k].y + absolutePositions[k].height : k \in DOMAIN absolutePositions})

\* width: Math.max(maxX + 100, 800), height: Math.max(maxY + 100, 600)
FlowCanvasWidth == Max2(FlowExtentX + CANVAS_MARGIN, MIN_WIDTH)
FlowCanvasHeight == Max2(FlowExtentY + CANVAS_MARGIN, MIN_HEIGHT)

ReturnFlowLayout ==
    /\ pc = "flowReturn"
    /\ width' = FlowCanvasWidth
    /\ height' = FlowCanvasHeight
    /\ pc' = "done"
    /\ UNCHANGED <<inputVars, dfsVars, solverVars, svgVars, flowVars, backEdgePaths, edgePaths, edgeLabels>>

-----------------------------------------------------------------------------
(* BackEdge.svelte: the loop path of a back edge, in 1/100 px              *)

MIN_EXTENSION == 40
MAX_EXTENSION == 80
MIN_ARC == 60
MAX_ARC == 120
MAX_CORNER == 25
Scale == 100

Abs(n) == IF n < 0 THEN 0 - n ELSE n

\* Math.max(40, Math.min(horizontalDistance * 0.15, 80))
Extension(d) == Max2(MIN_EXTENSION * Scale, Min2(15 * d, MAX_EXTENSION * Scale))
\* Math.max(60, Math.min(horizontalDistance * 0.25, 120))
ArcHeight(d) == Max2(MIN_ARC * Scale, Min2(25 * d, MAX_ARC * Scale))
\* Math.min(25, arcHeight * 0.4, sourceExtension * 0.8)
CornerRadius(d) ==
    Min2(MAX_CORNER * Scale, Min2((ArcHeight(d) * 4) \div 10, (Extension(d) * 8) \div 10))

\* Math.min(sourceY, targetY) - arcHeight
TopY(sy, ty, d) == Min2(sy, ty) * Scale - ArcHeight(d)

P(cmd, x, y) == [cmd |-> cmd, x |-> x, y |-> y]

\* the M / L / Q commands of edgePath; "Qc" is the control point of a Q
edgePath(sourceX, sourceY, targetX, targetY) ==
    LET d == Abs(targetX - sourceX)
        sx == sourceX * Scale
        sy == sourceY * Scale
        tx == targetX * Scale
        ty == targetY * Scale
        topY == TopY(sourceY, targetY, d)
        topRightX == sx + Extension(d)
        topLeftX == tx - Extension(d)
        r == CornerRadius(d)
    IN << P("M", sx, sy),
          P("L", topRightX - r, sy),
          P("Qc", topRightX, sy), P("Q", topRightX, sy - r),
          P("L", topRightX, topY + r),
          P("Qc", topRightX, topY), P("Q", topRightX - r, topY),
          P("L", topLeftX + r, topY),
          P("Qc", topLeftX, topY), P("Q", topLeftX, topY + r),
          P("L", topLeftX, ty - r),
          P("Qc", topLeftX, ty), P("Q", topLeftX + r, ty),
          P("L", tx, ty) >>

\* { x: (topRightX + topLeftX) / 2, y: topY }, x doubled to stay integral
labelPosition(sourceX, sourceY, targetX, targetY) ==
    LET d == Abs(targetX - sourceX) IN
    [x2 |-> (sourceX * Scale + Extension(d)) + (targetX * Scale - Extension(d)),
     y |-> TopY(sourceY, targetY, d)]

\* the handles Svelte Flow passes: sourcePosition Right, targetPosition Left
SourceHandle(k) ==
    [x |-> absolutePositions[k].x + absolutePositions[k].width,
     y |-> absolutePositions[k].y + absolutePositions[k].height \div 2]
TargetHandle(k) ==
    [x |-> absolutePositions[k].x, y |-> absolutePositions[k].y + absolutePositions[k].height \div 2]

FlowNodeIds == {flowNodes[i].id : i \in DOMAIN flowNodes}

\* the back edges the renderer draws: type 'back', both end nodes present
RenderedBackEdges ==
    {i \in DOMAIN flowEdges :
        /\ flowEdges[i].type = "back"
        /\ flowEdges[i].source \in FlowNodeIds
        /\ flowEdges[i].target \in FlowNodeIds}

RenderBackEdges ==
    /\ pc = "done" /\ variant = "flow"
    /\ backEdgePaths' =
        [i \in RenderedBackEdges |->
            LET s == SourceHandle(flowEdges[i].source)
                t == TargetHandle(flowEdges[i].target)
            IN [sourceX |-> s.x, sourceY |-> s.y, targetX |-> t.x, targetY |-> t.y,
                path |-> edgePath(s.x, s.y, t.x, t.y),
                label |-> labelPosition(s.x, s.y, t.x, t.y)]]
    /\ pc' = "rendered"
    /\ UNCHANGED <<inputVars, dfsVars, solverVars, svgVars, flowVars, width, height, edgePaths, edgeLabels>>

-----------------------------------------------------------------------------
(* generateEdgePath: the SVG path of an output edge of computeLayout, with *)
(* every coordinate doubled so that the midpoints stay integral            *)

Dbl(v) == Add(v, v)

\* a path command with the doubled coordinates of the point (x, y)
Cmd(cmd, x, y) == [cmd |-> cmd, x |-> Dbl(x), y |-> Dbl(y)]

\* the loop for (let i = 1; i < points.length - 1; i++), from index j on
RECURSIVE QuadChain(_, _)
QuadChain(points, j) ==
    IF j > Len(points) - 1 THEN <<>>
    ELSE LET q == points[j]
             next == points[j + 1]
         IN IF j = Len(points) - 1
            THEN << Cmd("Qc", q.x, q.y), Cmd("Q", next.x, next.y) >>
            ELSE << Cmd("Qc", q.x, q.y),
                    [cmd |-> "Q", x |-> Add(q.x, next.x), y |-> Add(q.y, next.y)] >>
                 \o QuadChain(points, j + 1)

\* generateEdgePath drawing a back edge as straight segments through its points
generateEdgePath_BackEdgePolyline(edge) ==
    LET points == edge.points
        start == points[1]
        end == points[Len(points)]
    IN IF Len(points) < 2 THEN <<>>
       ELSE IF edge.isBackEdge
       THEN [k \in DOMAIN points |-> Cmd(IF k = 1 THEN "M" ELSE "L", points[k].x, points[k].y)]
       ELSE IF Len(points) > 2
       THEN IF Len(points) = 3
            THEN << Cmd("M", start.x, start.y),
                    Cmd("Qc", points[2].x, points[2].y), Cmd("Q", end.x, end.y) >>
            ELSE << Cmd("M", start.x, start.y) >> \o QuadChain(points, 2)
       ELSE << Cmd("M", start.x, start.y),
               [cmd |-> "Cc", x |-> Add(start.x, end.x), y |-> Dbl(start.y)],
               [cmd |-> "Cc", x |-> Add(start.x, end.x), y |-> Dbl(end.y)],
               Cmd("C", end.x, end.y) >>

generateEdgePath(edge) ==
    LET points == edge.points
        start == points[1]
        end == points[Len(points)]
    IN IF Len(points) < 2 THEN <<>>
       ELSE IF edge.isBackEdge \/ Len(points) > 2
       THEN IF Len(points) = 2
            THEN << Cmd("M", start.x, start.y), Cmd("L", end.x, end.y) >>
            ELSE IF Len(points) = 3
            THEN << Cmd("M", start.x, start.y),
                    Cmd("Qc", points[2].x, points[2].y), Cmd("Q", end.x, end.y) >>
            ELSE << Cmd("M", start.x, start.y) >> \o QuadChain(points, 2)
       ELSE << Cmd("M", start.x, start.y),
               [cmd |-> "Cc", x |-> Add(start.x, end.x), y |-> Dbl(start.y)],
               [cmd |-> "Cc", x |-> Add(start.x, end.x), y |-> Dbl(end.y)],
               Cmd("C", end.x, end.y) >>

BACK_LABEL_LIFT == 15
LABEL_LIFT == 8

\* edge.count > 1 ? `x${edge.count}` : '' (0 stands for the empty string)
getEdgeLabel(edge) == IF edge.count > 1 THEN edge.count ELSE 0

\* the key of the each-block: `${edge.source}-${edge.target}`
EachKey(edge) == edge.source \o "-" \o edge.target

\* midX = (points[0].x + points[lastIdx].x) / 2 and the y of the <text>,
\* midY - 15 for a back edge and midY - 8 otherwise; both kept doubled
EdgeLabelOf(edge) ==
    LET first == edge.points[1]
        last == edge.points[Len(edge.points)]
        lift == IF edge.isBackEdge THEN BACK_LABEL_LIFT ELSE LABEL_LIFT
    IN [key |-> EachKey(edge),
        label |-> getEdgeLabel(edge),
        x2 |-> Add(first.x, last.x),
        y2 |-> Sub(Add(first.y, last.y), 2 * lift)]

\* {#each layoutData.edges as edge} {@const path = generateEdgePath(edge)} ...
RenderEdgePaths ==
    /\ pc = "done" /\ variant = "svg"
    /\ edgePaths' = [i \in DOMAIN layoutEdges |-> generateEdgePath(layoutEdges[i])]
    /\ edgeLabels' = [i \in DOMAIN layoutEdges |-> EdgeLabelOf(layoutEdges[i])]
    /\ pc' = "rendered"
    /\ UNCHANGED <<inputVars, dfsVars, solverVars, svgVars, flowVars, width, height, backEdgePaths>>

-----------------------------------------------------------------------------
(* The layout call: inputs, Init, Next                                     *)

MaxDepthBase == 4
MaxKeyEdges == 2

\* number of distinct layoutData objects the parent passes to the flow Graph component
MaxLayoutRefs == 4

SgIds == <<"s1", "s2", "s3">>
UnknownSg == "zz"

\* edges the graph inputs are built from: a three-cycle, a chord and a self-loop
LayoutEdgeUniverse == {<<"a", "b">>, <<"b", "c">>, <<"c", "a">>, <<"a", "c">>, <<"a", "a">>}

NodeLists == {[i \in DOMAIN s |-> MkNode(s[i], Null)] : s \in InjectiveSeqs(NodeIds, Cardinality(NodeIds))}
EdgeLists == {[i \in DOMAIN s |-> MkEdge(s[i][1], s[i][2])] : s \in InjectiveSeqs(LayoutEdgeUniverse, MaxEdges)}

\* graphs without containers: every node order, every edge order
GraphInputs ==
    {[nodes |-> ns, edges |-> es, subgraphs |-> <<>>] : ns \in NodeLists, es \in EdgeLists}

\* declared parents: none or an earlier container; the first container may
\* also name a key that is not in the map
ParentMaps(k) ==
    {p \in [1..k -> {Null, UnknownSg} \cup Range(SgIds)] :
        /\ p[1] \in {Null, UnknownSg}
        /\ \A i \in 2..k : p[i] \in {Null} \cup {SgIds[j] : j \in 1..(i - 1)}}

RECURSIVE Level(_, _)
Level(p, i) ==
    IF p[i] \in {Null, UnknownSg} THEN 0
    ELSE 1 + Level(p, CHOOSE j \in DOMAIN p : SgIds[j] = p[i])

\* a forest whose depths grow strictly from parent to child
SubgraphEntries(p, base) ==
    [i \in DOMAIN p |-> [id |-> SgIds[i], depth |-> base + Level(p, i), parent |-> p[i]]]

Reverse(s) == [i \in DOMAIN s |-> s[Len(s) + 1 - i]]

SubgraphMaps ==
    UNION {UNION {{SubgraphEntries(p, base), Reverse(SubgraphEntries(p, base))} :
                    p \in ParentMaps(k), base \in 0..MaxDepthBase} : k \in 1..Len(SgIds)}

\* two nodes placed in the containers
ContainerInputs ==
    {[nodes |-> <<MkNode("a", sa), MkNode("b", sb)>>, edges |-> <<>>, subgraphs |-> sgs] :
        sa \in {Null, UnknownSg} \cup Range(SgIds), sb \in {Null, "s1"}, sgs \in SubgraphMaps}

\* no node at all, with edges and containers left in the input
EmptyInputs ==
    {[nodes |-> <<>>, edges |-> es, subgraphs |-> sgs] :
        es \in {<<>>, <<MkEdge("a", "b")>>}, sgs \in SubgraphMaps}

Inputs == GraphInputs \cup ContainerInputs \cup EmptyInputs

Init ==
    /\ variant \in {"svg", "flow"}
    /\ \E inp \in Inputs :
        /\ nodes = inp.nodes
        /\ edges = inp.edges
        /\ subgraphs = inp.subgraphs
    /\ pc = "start"
    /\ DfsUnset
    /\ LayoutUnset
    /\ PageUnset
    /\ ComponentUnmounted

Next ==
    \/ ReturnEmpty
    \/ CallFindBackEdges
    \/ FindBackEdgesStep
    \/ BuildGraph
    \/ Solve
    \/ ExtractNodes
    \/ ExtractEdges
    \/ BoxFromSolver
    \/ BoxFallback
    \/ BoxOmitted
    \/ ReturnLayout
    \/ ComputeAbsolutePositions
    \/ BuildFlowNodes
    \/ BuildFlowEdges
    \/ ReturnFlowLayout
    \/ RenderBackEdges
    \/ RenderEdgePaths

Spec == Init /\ [][Next]_vars

-----------------------------------------------------------------------------
(* The layout call on edge lists with repeated entries and on node ids     *)
(* that contain the separator of the edge identifier                       *)

HyphenIds == <<"a-b", "c", "a", "b-c">>

KeyEdgeUniverse == {<<"a-b", "c">>, <<"a", "b-c">>, <<"a", "c">>}

KeyInputs ==
    {[nodes |-> [i \in DOMAIN HyphenIds |-> MkNode(HyphenIds[i], Null)],
      edges |-> [i \in DOMAIN s |-> MkEdge(s[i][1], s[i][2])],
      subgraphs |-> <<>>] : s \in SeqsUpTo(KeyEdgeUniverse, MaxKeyEdges)}

InitKeys ==
    /\ variant \in {"svg", "flow"}
    /\ \E inp \in Inputs \cup KeyInputs :
        /\ nodes = inp.nodes
        /\ edges = inp.edges
        /\ subgraphs = inp.subgraphs
    /\ pc = "start"
    /\ DfsUnset
    /\ LayoutUnset
    /\ PageUnset
    /\ ComponentUnmounted

SpecKeys == InitKeys /\ [][Next]_vars

-----------------------------------------------------------------------------
(* The layout call with a solver that reports an undefined or NaN field    *)

MaxDegenerateSize == 2

DegenerateFields == {"x", "y", "width"}

\* the solver's answer with one field of one entity undefined
Degenerate(answer, k, f) == [answer EXCEPT ![k][f] = Undefined]

SolveDegenerate ==
    /\ pc = "solve"
    /\ \E place \in Placements, m \in SolverMargins, sized \in SUBSET {c \in GClusters : HasLeaves(c)},
          k \in GLeaves \cup GClusters, f \in DegenerateFields :
        dagreOut' = Degenerate(SolverAnswer(place, m, sized), k, f)
    /\ solverRuns' = solverRuns + 1
    /\ pc' = IF variant = "svg" THEN "layoutNodes" ELSE "absolutePositions"
    /\ UNCHANGED <<inputVars, dfsVars, g, dagreEdges, svgVars, flowVars, outVars>>

DegenerateInputs ==
    {inp \in Inputs :
        /\ Len(inp.nodes) <= MaxDegenerateSize
        /\ Len(inp.edges) <= MaxDegenerateSize
        /\ Len(inp.subgraphs) <= MaxDegenerateSize}

InitDegenerate ==
    /\ variant \in {"svg", "flow"}
    /\ \E inp \in DegenerateInputs :
        /\ nodes = inp.nodes
        /\ edges = inp.edges
        /\ subgraphs = inp.subgraphs
    /\ pc = "start"
    /\ DfsUnset
    /\ LayoutUnset
    /\ PageUnset
    /\ ComponentUnmounted

NextDegenerate ==
    \/ ReturnEmpty
    \/ CallFindBackEdges
    \/ FindBackEdgesStep
    \/ BuildGraph
    \/ SolveDegenerate
    \/ ExtractNodes
    \/ ExtractEdges
    \/ BoxFromSolver
    \/ BoxFallback
    \/ BoxOmitted
    \/ ReturnLayout
    \/ ComputeAbsolutePositions
    \/ BuildFlowNodes
    \/ BuildFlowEdges
    \/ ReturnFlowLayout
    \/ RenderBackEdges
    \/ RenderEdgePaths

SpecDegenerate == InitDegenerate /\ [][NextDegenerate]_vars

-----------------------------------------------------------------------------
(* +page.svelte: the onMount callback, updateLayout and the layout it runs *)

\* what getGraph() resolves to: a graph, or a graph with the error field set
GraphResponses ==
    {[nodes |-> inp.nodes, edges |-> inp.edges, subgraphs |-> inp.subgraphs, error |-> Null] :
        inp \in DegenerateInputs}
    \cup {[nodes |-> <<>>, edges |-> <<>>, subgraphs |-> <<>>, error |-> "trace failed"]}

\* the messages of the errors fetchJson throws
FetchErrors == {"Unknown error", "HTTP 500"}

\* e instanceof Error ? e.message : 'Failed to load model'
CatchMessage(e) == IF e = Null THEN "Failed to load model" ELSE e

\* `Graph generation error: ${data.error}`
GraphErrorMessage(e) == "Graph generation error: " \o e

\* a catch block in updateLayout that reports the failure to the page
CaughtLayoutError_Surfaced(err, e) == CatchMessage(e)

\* catch (e) { console.error('Layout computation failed:', e) }: error as it was
CaughtLayoutError(err, e) == err

NoLayoutStep == UNCHANGED <<variant, nodes, edges, subgraphs, pc, dfsVars, layoutVars>>

\* onMount(async () => { ... modelSummary = await getModelSummary()
Mount ==
    /\ pageStep = "unmounted"
    /\ pageStep' = "summary"
    /\ UNCHANGED <<modelSummary, graphData, layoutData, isLoading, error, selVars, componentVars>>
    /\ NoLayoutStep

SummaryLoaded ==
    /\ pageStep = "summary"
    /\ modelSummary' = "summary"
    /\ pageStep' = "graph"
    /\ UNCHANGED <<graphData, layoutData, isLoading, error, selVars, componentVars>>
    /\ NoLayoutStep

\* getModelSummary() rejects: catch, then finally
SummaryFailed ==
    /\ pageStep = "summary"
    /\ \E e \in FetchErrors \cup {Null} : error' = CatchMessage(e)
    /\ isLoading' = FALSE
    /\ pageStep' = "mounted"
    /\ UNCHANGED <<modelSummary, graphData, layoutData, selVars, componentVars>>
    /\ NoLayoutStep

\* getGraph() rejects: catch, then finally
GraphFailed ==
    /\ pageStep = "graph"
    /\ \E e \in FetchErrors \cup {Null} : error' = CatchMessage(e)
    /\ isLoading' = FALSE
    /\ pageStep' = "mounted"
    /\ UNCHANGED <<modelSummary, graphData, layoutData, selVars, componentVars>>
    /\ NoLayoutStep

\* graphData = data; if (data.error) { error = ... } then finally
GraphLoadedWithError ==
    /\ pageStep = "graph"
    /\ \E data \in {d \in GraphResponses : d.error # Null} :
        /\ graphData' = Some(data)
        /\ error' = GraphErrorMessage(data.error)
    /\ isLoading' = FALSE
    /\ pageStep' = "mounted"
    /\ UNCHANGED <<modelSummary, layoutData, selVars, componentVars>>
    /\ NoLayoutStep

\* graphData = data; else { await updateLayout(data) }: computeLayout starts
GraphLoaded ==
    /\ pageStep = "graph"
    /\ \E data \in {d \in GraphResponses : d.error = Null} :
        /\ graphData' = Some(data)
        /\ nodes' = data.nodes
        /\ edges' = data.edges
        /\ subgraphs' = data.subgraphs
    /\ pc' = "start"
    /\ pageStep' = "layout"
    /\ UNCHANGED <<variant, modelSummary, layoutData, isLoading, error, selVars, componentVars, dfsVars, layoutVars>>

\* layoutData = await computeLayout(data), then finally
LayoutResolved ==
    /\ pageStep = "layout" /\ pc = "done"
    /\ layoutData' = Some([nodes |-> layoutNodes, edges |-> layoutEdges, subgraphBoxes |-> subgraphBoxes,
                            width |-> width, height |-> height])
    /\ isLoading' = FALSE
    /\ pageStep' = "mounted"
    /\ UNCHANGED <<modelSummary, graphData, error, selVars, componentVars>>
    /\ NoLayoutStep

\* dagre.layout(g) throws inside computeLayout: updateLayout's catch, then finally
LayoutThrows ==
    /\ pageStep = "layout" /\ pc = "solve"
    /\ \E e \in {"dagre failed", Null} : error' = CaughtLayoutError(error, e)
    /\ pc' = "thrown"
    /\ isLoading' = FALSE
    /\ pageStep' = "mounted"
    /\ UNCHANGED <<variant, nodes, edges, subgraphs, modelSummary, graphData, layoutData, selVars, componentVars,
                   dfsVars, layoutVars>>

\* the ids a click can carry: the nodes of the graph and a group node
ClickableIds == NodeIds \cup {"s1"}

\* no handler runs before the mount or inside the synchronous layout call
HandlersCanRun == pageStep \notin {"unmounted", "layout"}

NoMountStep ==
    UNCHANGED <<variant, nodes, edges, subgraphs, pc, dfsVars, layoutVars,
                pageStep, modelSummary, graphData, layoutData, isLoading, error, componentVars>>

\* graphData.nodes.find((n) => n.id === nodeId) || null
FindNode(data, nodeId) ==
    LET hits == {i \in DOMAIN data.nodes : data.nodes[i].id = nodeId} IN
    IF hits = {} THEN NoValue
    ELSE Some(data.nodes[CHOOSE i \in hits : \A j \in hits : i <= j])

\* a handler that keeps the previous node when the id is not found
SelectedNodeAfter_KeepOnMiss(nodeId) ==
    IF graphData # NoValue /\ FindNode(graphData[1], nodeId) # NoValue
    THEN FindNode(graphData[1], nodeId) ELSE selectedNode

\* if (graphData) { selectedNode = graphData.nodes.find(...) || null }
SelectedNodeAfter(nodeId) ==
    IF graphData # NoValue THEN FindNode(graphData[1], nodeId) ELSE selectedNode

handleNodeSelect ==
    /\ HandlersCanRun
    /\ \E nodeId \in ClickableIds :
        /\ selectedNodeId' = nodeId
        /\ isDetailsPanelOpen' = TRUE
        /\ selectedNode' = SelectedNodeAfter(nodeId)
    /\ NoMountStep

handleBackgroundClick ==
    /\ HandlersCanRun
    /\ selectedNodeId' = Null
    /\ isDetailsPanelOpen' = FALSE
    /\ selectedNode' = NoValue
    /\ NoMountStep

closeDetailsPanel ==
    /\ HandlersCanRun
    /\ isDetailsPanelOpen' = FALSE
    /\ UNCHANGED <<selectedNodeId, selectedNode>>
    /\ NoMountStep

InitPage ==
    /\ variant = "svg"
    /\ nodes = <<>> /\ edges = <<>> /\ subgraphs = <<>>
    /\ pc = "idle"
    /\ DfsUnset
    /\ LayoutUnset
    /\ PageUnset
    /\ ComponentUnmounted

NextPage ==
    \/ Mount
    \/ SummaryLoaded
    \/ SummaryFailed
    \/ GraphFailed
    \/ GraphLoadedWithError
    \/ GraphLoaded
    \/ LayoutResolved
    \/ LayoutThrows
    \/ handleNodeSelect
    \/ handleBackgroundClick
    \/ closeDetailsPanel
    \/ ReturnEmpty
    \/ CallFindBackEdges
    \/ FindBackEdgesStep
    \/ BuildGraph
    \/ Solve
    \/ ExtractNodes
    \/ ExtractEdges
    \/ BoxFromSolver
    \/ BoxFallback
    \/ BoxOmitted
    \/ ReturnLayout

SpecPage == InitPage /\ [][NextPage]_vars

-----------------------------------------------------------------------------
(* The flow Graph component: two $effect blocks over the props             *)

\* a FlowNode as computeFlowLayout returns it (no `selected` field yet)
PropNode(id, type, x, y, parentId) ==
    [id |-> id, type |-> type, position |-> [x |-> x, y |-> y], parentId |-> parentId,
     width |-> NODE_WIDTH, height |-> NODE_HEIGHT]

PropEdge(s, t, isBack) ==
    [id |-> FlowEdgeId(s, t), source |-> s, target |-> t,
     type |-> IF isBack THEN "back" ELSE "default", count |-> 1, isBackEdge |-> isBack]

\* the FlowLayoutData objects the parent passes; `ref` is the identity of the object:
\* a layout with no nodes, a layout, the same layout recomputed, and a layout that moved
LayoutOfRef(r) ==
    IF r % 4 = 0 THEN [ref |-> r, nodes |-> <<>>, edges |-> <<>>]
    ELSE IF r % 4 = 3
    THEN [ref |-> r,
          nodes |-> <<PropNode("g1", "group", 0, 0, Null), PropNode("a", "tensor", 40, 90, "g1"),
                      PropNode("b", "function", 300, 200, Null)>>,
          edges |-> <<PropEdge("a", "b", FALSE), PropEdge("b", "a", TRUE)>>]
    ELSE [ref |-> r,
          nodes |-> <<PropNode("g1", "group", 0, 0, Null), PropNode("a", "tensor", 20, 30, "g1"),
                      PropNode("b", "function", 300, 0, Null)>>,
          edges |-> <<PropEdge("a", "b", FALSE)>>]

FlowLayouts == {LayoutOfRef(r) : r \in 1..MaxLayoutRefs}

\* values of the selectedNodeId prop: none, two leaf nodes, an id no node has
SelectionIds == {Null, "a", "b", "q"}

\* where SvelteFlow may leave a node the user dragged (bind:nodes)
DragPosition == [x |-> 555, y |-> 444]

\* { ...node, selected: node.id === selection }
WithSelected(node, selection) ==
    [id |-> node.id, type |-> node.type, position |-> node.position, parentId |-> node.parentId,
     width |-> node.width, height |-> node.height, selected |-> (node.id = selection)]

\* an effect that initialises every node as not selected
InitialSelection_None(current) == Null

\* const currentSelection = untrack(() => selectedNodeId)
InitialSelection(current) == current

NoPipelineStep ==
    UNCHANGED <<variant, nodes, edges, subgraphs, pc, dfsVars, layoutVars,
                pageStep, modelSummary, graphData, layoutData, isLoading, error, selVars>>

\* the parent passes another layoutData object
LayoutDataChanges ==
    /\ propLayoutData # NoValue
    /\ \E l \in FlowLayouts :
        /\ l.ref # propLayoutData[1].ref
        /\ propLayoutData' = Some(l)
    /\ effectsPending' = effectsPending \cup {"layout"}
    /\ UNCHANGED <<propSelectedNodeId, stateNodes, stateEdges, lastLayoutDataRef>>
    /\ NoPipelineStep

\* the parent passes another selectedNodeId
SelectedNodeIdChanges ==
    /\ propLayoutData # NoValue
    /\ \E id \in SelectionIds :
        /\ id # propSelectedNodeId
        /\ propSelectedNodeId' = id
    /\ effectsPending' = effectsPending \cup {"selection"}
    /\ UNCHANGED <<propLayoutData, stateNodes, stateEdges, lastLayoutDataRef>>
    /\ NoPipelineStep

\* SvelteFlow writes a dragged node back through bind:nodes
NodeDragged ==
    /\ propLayoutData # NoValue
    /\ Len(propLayoutData[1].nodes) > 0
    /\ \E i \in DOMAIN stateNodes :
        /\ stateNodes[i].position # DragPosition
        /\ stateNodes' = [stateNodes EXCEPT ![i].position = DragPosition]
    /\ UNCHANGED <<propLayoutData, propSelectedNodeId, stateEdges, lastLayoutDataRef, effectsPending>>
    /\ NoPipelineStep

\* first $effect: re-initialise nodes and edges when the layoutData reference changed
LayoutEffect ==
    /\ "layout" \in effectsPending
    /\ effectsPending' = effectsPending \ {"layout"}
    /\ LET l == propLayoutData[1] IN
        IF l.ref # lastLayoutDataRef /\ Len(l.nodes) > 0
        THEN /\ lastLayoutDataRef' = l.ref
             /\ stateNodes' = [i \in DOMAIN l.nodes |->
                                  WithSelected(l.nodes[i], InitialSelection(propSelectedNodeId))]
             /\ stateEdges' = l.edges
        ELSE UNCHANGED <<stateNodes, stateEdges, lastLayoutDataRef>>
    /\ UNCHANGED <<propLayoutData, propSelectedNodeId>>
    /\ NoPipelineStep

\* second $effect: update only the selected property; effects run in the order they are declared
SelectionEffect ==
    /\ "selection" \in effectsPending
    /\ "layout" \notin effectsPending
    /\ effectsPending' = effectsPending \ {"selection"}
    /\ IF Len(stateNodes) > 0
       THEN stateNodes' = [i \in DOMAIN stateNodes |-> WithSelected(stateNodes[i], propSelectedNodeId)]
       ELSE UNCHANGED stateNodes
    /\ UNCHANGED <<propLayoutData, propSelectedNodeId, stateEdges, lastLayoutDataRef>>
    /\ NoPipelineStep

\* the component is mounted with its props; both effects run once after mount
InitFlowGraph ==
    /\ variant = "flow"
    /\ nodes = <<>> /\ edges = <<>> /\ subgraphs = <<>>
    /\ pc = "idle"
    /\ DfsUnset
    /\ LayoutUnset
    /\ PageUnset
    /\ propLayoutData \in {Some(l) : l \in FlowLayouts}
    /\ propSelectedNodeId \in SelectionIds
    /\ stateNodes = <<>>
    /\ stateEdges = <<>>
    /\ lastLayoutDataRef = 0
    /\ effectsPending = {"layout", "selection"}

NextFlowGraph ==
    \/ LayoutDataChanges
    \/ SelectedNodeIdChanges
    \/ NodeDragged
    \/ LayoutEffect
    \/ SelectionEffect

SpecFlowGraph == InitFlowGraph /\ [][NextFlowGraph]_vars

-----------------------------------------------------------------------------
(* Graph-theoretic vocabulary of the claims                                *)

\* edges of the input list whose key is not in the set returned
RemainingEdges == {<<edges[i].source, edges[i].target>> : i \in {j \in DOMAIN edges : EdgeKey(edges[j].source, edges[j].target) \notin backEdges}}

AllEdges == {<<edges[i].source, edges[i].target>> : i \in DOMAIN edges}

Succ(E, S) == {e[2] : e \in {d \in E : d[1] \in S}}

RECURSIVE ReachFrom(_, _, _)
ReachFrom(E, S, n) == IF n = 0 THEN S ELSE ReachFrom(E, S \cup Succ(E, S), n - 1)

\* k lies on a directed cycle of E (a self-loop included)
OnCycle(E, k) == k \in ReachFrom(E, Succ(E, {k}), Cardinality(Keys))

Acyclic(E) == \A k \in Keys : ~OnCycle(E, k)

\* C1: once findBackEdges has returned, the input edges whose key is not in
\* the returned set form a directed graph without a cycle, self-loops
\* included, for any node list and any edge list.
C1_RemovingBackEdgesIsAcyclic ==
    pc = "backEdgesKnown" => Acyclic(RemainingEdges)

-----------------------------------------------------------------------------
(* Properties                                                              *)

\* findBackEdges has returned to the layout
BackEdgesKnown == pc \notin {"start", "findBackEdges", "dfs"} /\ Len(nodes) > 0

\* the solver request has been built
GraphBuilt == BackEdgesKnown /\ pc # "backEdgesKnown"

Returned == pc \in {"done", "rendered"}

\* the isBackEdge flags of the output edge list, in output order
OutputFlags ==
    IF variant = "svg" THEN [i \in DOMAIN layoutEdges |-> layoutEdges[i].isBackEdge]
    ELSE [i \in DOMAIN flowEdges |-> flowEdges[i].isBackEdge]

OutputEdgeKeys ==
    IF variant = "svg"
    THEN [i \in DOMAIN layoutEdges |-> EdgeKey(layoutEdges[i].source, layoutEdges[i].target)]
    ELSE [i \in DOMAIN flowEdges |-> EdgeKey(flowEdges[i].source, flowEdges[i].target)]

ThreeCycle == {<<"a", "b">>, <<"b", "c">>, <<"c", "a">>}
IsThreeCycleInput == NodeIdSet(nodes) = NodeIds /\ Len(edges) = 3 /\ AllEdges = ThreeCycle

\* C2: for the cycle a->b, b->c, c->a, in every order of the node list and of
\* the edge list, findBackEdges returns exactly one edge of the cycle, and
\* the output edge list holds the three edges, that one flagged isBackEdge
\* and the other two not.
C2_ThreeCycleHasOneBackEdge ==
    IsThreeCycleInput =>
        /\ BackEdgesKnown =>
            /\ Cardinality(backEdges) = 1
            /\ backEdges \subseteq {EdgeKey(e[1], e[2]) : e \in ThreeCycle}
        /\ Returned =>
            /\ Len(OutputFlags) = 3
            /\ \A i \in DOMAIN OutputFlags : OutputFlags[i] <=> (OutputEdgeKeys[i] \in backEdges)
            /\ Cardinality({i \in DOMAIN OutputFlags : OutputFlags[i]}) = 1
            /\ Cardinality({i \in DOMAIN OutputFlags : ~OutputFlags[i]}) = 2

C2_Witness ==
    /\ IsThreeCycleInput /\ pc = "done" /\ variant = "svg"
    /\ nodes[1].id = "c" /\ edges[1].source = "b"
    /\ \E i \in DOMAIN layoutEdges : layoutEdges[i].isBackEdge

\* C3: when the input edge list has no cycle, findBackEdges returns the empty
\* set in every order of the nodes and edges, every output edge carries
\* isBackEdge = false, and the solver request holds every input edge.
C3_AcyclicInputHasNoBackEdge ==
    Acyclic(AllEdges) =>
        /\ BackEdgesKnown => backEdges = {}
        /\ Returned => \A i \in DOMAIN OutputFlags : ~OutputFlags[i]
        /\ GraphBuilt =>
            /\ Len(g.edges) = Len(edges)
            /\ \A i \in DOMAIN edges :
                g.edges[i].v = edges[i].source /\ g.edges[i].w = edges[i].target

C3_Witness ==
    /\ pc = "done" /\ variant = "svg"
    /\ AllEdges = {<<"a", "b">>, <<"b", "c">>}
    /\ Len(nodes) = 3 /\ nodes[1].id = "c"
    /\ Len(layoutEdges) = 2 /\ Len(g.edges) = 2
    /\ backEdges = {}

\* the rectangle r lies inside the rectangle b
Encloses(b, r) ==
    /\ b.x <= r.x /\ b.y <= r.y
    /\ b.x + b.width >= r.x + r.width
    /\ b.y + b.height >= r.y + r.height

\* C4: in computeLayout's output every container box encloses every node the
\* container directly owns and the output box of every descendant container,
\* whether the solver or the fallback aggregation produced the boxes.
C4_BoxEnclosesContents ==
    (pc = "done" /\ variant = "svg") =>
        \A c \in DOMAIN subgraphBoxes :
            /\ \A i \in DOMAIN layoutNodes :
                layoutNodes[i].subgraph = c => Encloses(subgraphBoxes[c], layoutNodes[i])
            /\ \A d \in getAllDescendantSubgraphs(c) \cap DOMAIN subgraphBoxes :
                Encloses(subgraphBoxes[c], subgraphBoxes[d])

\* C5: an input edge with a source or target that is no input node's id is
\* absent from the output edge list of computeLayout and of
\* computeFlowLayout (the first half of the claim; the second half compares
\* two calls).
C5_DanglingEdgesExcluded ==
    Returned =>
        \A i \in DOMAIN OutputEdgeKeys :
            \E n \in NodeIdSet(nodes), m \in NodeIdSet(nodes) : OutputEdgeKeys[i] = EdgeKey(n, m)

\* absolute position of an output node of computeFlowLayout: its position
\* plus the absolute position of the parent it names
FlowNodeById(id) == flowNodes[CHOOSE i \in DOMAIN flowNodes : flowNodes[i].id = id]

RECURSIVE FlowAbs(_, _)
FlowAbs(id, fuel) ==
    LET n == FlowNodeById(id) IN
    IF n.parentId = Null \/ n.parentId \notin FlowNodeIds \/ fuel = 0
    THEN n.position
    ELSE LET q == FlowAbs(n.parentId, fuel - 1)
         IN [x |-> n.position.x + q.x, y |-> n.position.y + q.y]

\* right and bottom bounds of the output entities, in canvas coordinates
OutputRights ==
    IF variant = "svg"
    THEN {layoutNodes[i].x + layoutNodes[i].width : i \in DOMAIN layoutNodes}
         \cup {subgraphBoxes[c].x + subgraphBoxes[c].width : c \in DOMAIN subgraphBoxes}
    ELSE {FlowAbs(flowNodes[i].id, Len(flowNodes)).x + flowNodes[i].width : i \in DOMAIN flowNodes}

OutputBottoms ==
    IF variant = "svg"
    THEN {layoutNodes[i].y + layoutNodes[i].height : i \in DOMAIN layoutNodes}
         \cup {subgraphBoxes[c].y + subgraphBoxes[c].height : c \in DOMAIN subgraphBoxes}
    ELSE {FlowAbs(flowNodes[i].id, Len(flowNodes)).y + flowNodes[i].height : i \in DOMAIN flowNodes}

\* C6 as stated: for a non-empty graph the canvas is the largest right
\* (bottom) bound of the output nodes and container boxes plus 100.
C6_CanvasIsExtentPlusMargin ==
    (Returned /\ Len(nodes) > 0) =>
        /\ width = SetMax(OutputRights) + 100
        /\ height = SetMax(OutputBottoms) + 100

\* C6, amended: for a non-empty graph computeLayout returns the largest
\* right (bottom) bound of its nodes and boxes, taken as 0 when negative,
\* plus 100; computeFlowLayout returns the larger of that sum, taken over the
\* absolute positions of its nodes and groups, and the minimum 800 (600).
C6_CanvasIsExtentPlusMarginOrMinimum ==
    (Returned /\ Len(nodes) > 0) =>
        LET w == SetMax({0} \cup OutputRights) + 100
            h == SetMax({0} \cup OutputBottoms) + 100
        IN IF variant = "svg"
           THEN width = w /\ height = h
           ELSE width = Max2(w, 800) /\ height = Max2(h, 600)

C6_Witness ==
    /\ pc = "done" /\ variant = "flow" /\ Len(nodes) = 3 /\ Len(subgraphs) = 0
    /\ SetMax(OutputRights) + 100 > 800 /\ width = SetMax(OutputRights) + 100
    /\ SetMax(OutputBottoms) + 100 < 600 /\ height = 600

\* C7: for every input and in both variants the returned canvas is at least
\* 800 wide and 600 high.
C7_CanvasAtLeastMinimum ==
    Returned => width >= 800 /\ height >= 600

\* C8: with an empty node list the layout returns no nodes, no edges, no
\* container boxes and the canvas 800x600, builds no solver graph and never
\* runs the solver, whatever edges and containers come with it.
C8_EmptyNodeListShortCircuits ==
    Len(nodes) = 0 =>
        /\ pc \in {"start", "done", "rendered"}
        /\ solverRuns = 0
        /\ g.nodes = <<>> /\ g.edges = <<>>
        /\ Returned =>
            /\ layoutNodes = <<>> /\ layoutEdges = <<>> /\ DOMAIN subgraphBoxes = {}
            /\ flowNodes = <<>> /\ flowEdges = <<>>
            /\ width = 800 /\ height = 600

C8_Witness ==
    /\ pc = "done" /\ Len(nodes) = 0 /\ Len(edges) > 0 /\ Len(subgraphs) > 0
    /\ width = 800 /\ height = 600 /\ solverRuns = 0

\* the back edges of computeLayout's output
SvgBackEdges == {i \in DOMAIN layoutEdges : layoutEdges[i].isBackEdge}

LayoutNodeById(id) == layoutNodes[CHOOSE i \in DOMAIN layoutNodes : layoutNodes[i].id = id]

\* right-centre of the source and left-centre of the target of output edge i
SvgStart(i) ==
    LET n == LayoutNodeById(layoutEdges[i].source) IN [x |-> n.x + n.width, y |-> n.y + n.height \div 2]
SvgEnd(i) ==
    LET n == LayoutNodeById(layoutEdges[i].target) IN [x |-> n.x, y |-> n.y + n.height \div 2]

\* C9 as stated: every back-edge path starts at the source's right-centre
\* anchor, ends at the target's left-centre anchor, and each point between
\* them has a y strictly smaller than both anchors' y.
C9_LoopStrictlyAboveAnchors ==
    /\ (pc = "done" /\ variant = "svg") =>
        \A i \in SvgBackEdges :
            LET pts == layoutEdges[i].points IN
            /\ pts[1] = SvgStart(i) /\ pts[Len(pts)] = SvgEnd(i)
            /\ \A k \in 2..(Len(pts) - 1) : pts[k].y < Min2(SvgStart(i).y, SvgEnd(i).y)
    /\ pc = "rendered" =>
        \A i \in DOMAIN backEdgePaths :
            LET e == backEdgePaths[i] IN
            /\ e.path[1].x = e.sourceX * Scale /\ e.path[1].y = e.sourceY * Scale
            /\ e.path[Len(e.path)].x = e.targetX * Scale /\ e.path[Len(e.path)].y = e.targetY * Scale
            /\ \A k \in 2..(Len(e.path) - 1) : e.path[k].y < Min2(e.sourceY, e.targetY) * Scale

\* C9, amended: every back-edge path starts at the source's right-centre
\* anchor and ends at the target's left-centre anchor; its first
\* intermediate point keeps the source anchor's y and its last one the
\* target anchor's y; no intermediate point is below the lower anchor; the
\* run across the top is strictly above both anchors, 60 above the upper one
\* in computeLayout and arcHeight (60..120) above it in BackEdge.svelte.
C9_LoopTopAboveAnchors ==
    /\ (pc = "done" /\ variant = "svg") =>
        \A i \in SvgBackEdges :
            LET pts == layoutEdges[i].points
                lo == Min2(SvgStart(i).y, SvgEnd(i).y)
                hi == Max2(SvgStart(i).y, SvgEnd(i).y)
            IN /\ Len(pts) = 6
               /\ pts[1] = SvgStart(i) /\ pts[6] = SvgEnd(i)
               /\ pts[2].y = pts[1].y /\ pts[5].y = pts[6].y
               /\ pts[3].y = lo - 60 /\ pts[4].y = lo - 60
               /\ \A k \in 2..5 : pts[k].y <= hi
    /\ pc = "rendered" =>
        \A i \in DOMAIN backEdgePaths :
            LET e == backEdgePaths[i]
                n == Len(e.path)
                lo == Min2(e.sourceY, e.targetY) * Scale
                hi == Max2(e.sourceY, e.targetY) * Scale
            IN /\ e.path[1].x = e.sourceX * Scale /\ e.path[1].y = e.sourceY * Scale
               /\ e.path[n].x = e.targetX * Scale /\ e.path[n].y = e.targetY * Scale
               /\ e.path[2].y = e.path[1].y /\ e.path[n - 1].y = e.path[n].y
               /\ \A k \in 2..(n - 1) : e.path[k].y <= hi
               /\ \A k \in 6..9 :
                    /\ e.path[k].y < lo
                    /\ lo - e.path[k].y >= 60 * Scale /\ lo - e.path[k].y <= 120 * Scale

C9_Witness ==
    /\ pc = "done" /\ variant = "svg"
    /\ \E i \in SvgBackEdges : SvgStart(i).y > SvgEnd(i).y

\* C10: over the fallback boxes of one layout, a container at a smaller or
\* equal depth has at least the padding of one at a greater depth, no
\* padding is below 20, and every container of depth 5 or more has exactly 20.
C10_DepthPaddingMonotone ==
    \A c \in DOMAIN padApplied :
        /\ padApplied[c] >= 20
        /\ SubgraphOf(c).depth >= 5 => padApplied[c] = 20
        /\ \A d \in DOMAIN padApplied :
            SubgraphOf(c).depth <= SubgraphOf(d).depth => padApplied[c] >= padApplied[d]

C10_Witness ==
    /\ pc = "done"
    /\ \E c \in DOMAIN padApplied, d \in DOMAIN padApplied :
        /\ SubgraphOf(c).depth < 5 /\ SubgraphOf(d).depth > 5
        /\ padApplied[c] > padApplied[d] /\ padApplied[d] = 20

\* the numeric fields an output carries
OutputNumbers ==
    IF variant = "svg"
    THEN UNION {{layoutNodes[i].x, layoutNodes[i].y, layoutNodes[i].width, layoutNodes[i].height} :
                    i \in DOMAIN layoutNodes}
         \cup UNION {{subgraphBoxes[c].x, subgraphBoxes[c].y, subgraphBoxes[c].width, subgraphBoxes[c].height} :
                    c \in DOMAIN subgraphBoxes}
         \cup {width, height}
    ELSE UNION {{flowNodes[i].position.x, flowNodes[i].position.y, flowNodes[i].width, flowNodes[i].height} :
                    i \in DOMAIN flowNodes}
         \cup {width, height}

\* C11: when the solver reports an undefined or NaN coordinate or size for a
\* node or a container, no x, y, width or height of an output node or
\* container box, and neither canvas dimension, is NaN or undefined, in
\* computeLayout and in computeFlowLayout.
C11_NoInvalidNumberInOutput ==
    Returned => Undefined \notin OutputNumbers

\* the entities whose declared parent is set and is no key of the container map
OrphanContainers == {e.id : e \in {d \in Range(subgraphs) : d.parent # Null /\ d.parent \notin SubgraphIds}}
OrphanNodes == {n.id : n \in {d \in Range(nodes) : d.subgraph # Null /\ d.subgraph \notin SubgraphIds}}

\* C12: a node or container whose declared parent is no key of the container
\* map gets no parent in the solver request, keeps its absolute position and
\* carries no parent reference in the output of either variant.
C12_UnknownParentIsRoot ==
    /\ GraphBuilt => \A k \in OrphanContainers \cup OrphanNodes : k \notin DOMAIN g.parent
    /\ (Returned /\ variant = "flow") =>
        \A i \in DOMAIN flowNodes :
            flowNodes[i].id \in OrphanContainers \cup OrphanNodes =>
                /\ flowNodes[i].parentId = Null
                /\ flowNodes[i].position.x = absolutePositions[flowNodes[i].id].x
                /\ flowNodes[i].position.y = absolutePositions[flowNodes[i].id].y
    /\ (Returned /\ variant = "svg") =>
        /\ \A c \in OrphanContainers \cap DOMAIN subgraphBoxes : subgraphBoxes[c].parent = Null
        /\ \A i \in DOMAIN layoutNodes :
            layoutNodes[i].id \in OrphanNodes => layoutNodes[i].subgraph = Null

\* the path command c names the point pt (path coordinates are doubled)
CmdAt(c, pt) == c.x = 2 * pt.x /\ c.y = 2 * pt.y

\* M start C c1, c2, end
IsCubicCurve(points, path) ==
    /\ Len(path) = 4
    /\ path[1].cmd = "M" /\ CmdAt(path[1], points[1])
    /\ path[2].cmd = "Cc" /\ path[3].cmd = "Cc"
    /\ path[4].cmd = "C" /\ CmdAt(path[4], points[Len(points)])

\* M start, then one Q per intermediate point, that point its control point
IsQuadraticChain(points, path) ==
    LET n == Len(points) IN
    /\ Len(path) = 1 + 2 * (n - 2)
    /\ path[1].cmd = "M" /\ CmdAt(path[1], points[1])
    /\ \A k \in 1..(n - 2) :
        /\ path[2 * k].cmd = "Qc" /\ CmdAt(path[2 * k], points[k + 1])
        /\ path[2 * k + 1].cmd = "Q"
    /\ CmdAt(path[Len(path)], points[n])

\* M start, then a straight segment to every further point
IsPolyline(points, path) ==
    /\ Len(path) = Len(points)
    /\ \A k \in DOMAIN path :
        /\ path[k].cmd = (IF k = 1 THEN "M" ELSE "L")
        /\ CmdAt(path[k], points[k])

\* C13 as stated: generateEdgePath draws a forward edge of two points as one
\* cubic curve, a forward edge of more points as a chain of quadratic
\* segments through the intermediate points, and a back edge as straight
\* segments through exactly its stored points.
C13_BackEdgeDrawnAsPolyline ==
    (pc = "rendered" /\ variant = "svg") =>
        \A i \in DOMAIN layoutEdges :
            LET e == layoutEdges[i] IN
            /\ (~e.isBackEdge /\ Len(e.points) = 2) => IsCubicCurve(e.points, edgePaths[i])
            /\ (~e.isBackEdge /\ Len(e.points) > 2) => IsQuadraticChain(e.points, edgePaths[i])
            /\ e.isBackEdge => IsPolyline(e.points, edgePaths[i])

\* C13, amended: generateEdgePath draws a forward edge of two points as one
\* cubic curve, and a forward edge of more than two points and every back
\* edge (six points) as a chain of quadratic segments whose control points
\* are the stored intermediate points, from the first point to the last.
C13_BackEdgeDrawnAsQuadraticChain ==
    (pc = "rendered" /\ variant = "svg") =>
        \A i \in DOMAIN layoutEdges :
            LET e == layoutEdges[i] IN
            /\ (~e.isBackEdge /\ Len(e.points) = 2) => IsCubicCurve(e.points, edgePaths[i])
            /\ (~e.isBackEdge /\ Len(e.points) > 2) => IsQuadraticChain(e.points, edgePaths[i])
            /\ e.isBackEdge =>
                /\ Len(e.points) = 6
                /\ IsQuadraticChain(e.points, edgePaths[i])
                /\ \A k \in DOMAIN edgePaths[i] : edgePaths[i][k].cmd # "L"

C13_Witness ==
    /\ pc = "rendered" /\ variant = "svg"
    /\ \E i \in DOMAIN layoutEdges : layoutEdges[i].isBackEdge /\ Len(edgePaths[i]) = 9
    /\ \E i \in DOMAIN layoutEdges : ~layoutEdges[i].isBackEdge /\ Len(layoutEdges[i].points) = 2
    /\ \E i \in DOMAIN layoutEdges : ~layoutEdges[i].isBackEdge /\ Len(layoutEdges[i].points) = 3

\* the leaf nodes of the output with their sizes
OutputLeafSizes ==
    IF variant = "svg"
    THEN {[id |-> layoutNodes[i].id, width |-> layoutNodes[i].width, height |-> layoutNodes[i].height] :
            i \in DOMAIN layoutNodes}
    ELSE {[id |-> flowNodes[i].id, width |-> flowNodes[i].width, height |-> flowNodes[i].height] :
            i \in {j \in DOMAIN flowNodes : flowNodes[j].type # "group"}}

NodeTypeOf(id) == (CHOOSE n \in Range(nodes) : n.id = id).nodeType

\* the size of a node type: tensors compact in computeLayout, and in
\* computeFlowLayout too when compactInFlow
SizeOfType(nodeType, compactInFlow) ==
    IF nodeType = "tensor" /\ (variant = "svg" \/ compactInFlow) THEN [width |-> 160, height |-> 60]
    ELSE IF variant = "svg" THEN [width |-> 200, height |-> 80]
    ELSE [width |-> 200, height |-> 160]

\* every node is registered and output with the size of its type
SizedBy(compactInFlow) ==
    /\ GraphBuilt =>
        \A k \in NodeIdSet(nodes) :
            k \in DOMAIN g.dims /\ g.dims[k] = SizeOfType(NodeTypeOf(k), compactInFlow)
    /\ Returned =>
        /\ {q.id : q \in OutputLeafSizes} = NodeIdSet(nodes)
        /\ \A q \in OutputLeafSizes :
            [width |-> q.width, height |-> q.height] = SizeOfType(NodeTypeOf(q.id), compactInFlow)

\* C14 as stated: in both variants every leaf node is registered with the
\* solver and output with the compact size when it is a tensor and with the
\* standard size otherwise.
C14_TensorsCompactInBothVariants == SizedBy(TRUE)

\* C14, amended: computeLayout registers and outputs a tensor node 160x60
\* and a node of any other type 200x80; computeFlowLayout registers and
\* outputs every node 200x160, whatever its type.
C14_SizeByTypeInSvgOnly == SizedBy(FALSE)

C14_Witness ==
    /\ pc = "done" /\ variant = "svg" /\ Len(layoutNodes) = 3
    /\ \E i \in DOMAIN layoutNodes : layoutNodes[i].nodeType = "tensor" /\ layoutNodes[i].width = 160
    /\ \E i \in DOMAIN layoutNodes : layoutNodes[i].nodeType = "unknown" /\ layoutNodes[i].width = 200
    /\ \E i \in DOMAIN layoutNodes : layoutNodes[i].nodeType = "function" /\ layoutNodes[i].height = 80

\* the values the page's error can take from the fetch layer
FetchLayerErrors ==
    {"Failed to load model"} \cup FetchErrors \cup {"Graph generation error: " \o "trace failed"}

\* C15: the page's error is set only by a failed summary or graph fetch or by
\* the error field of the fetched graph, in which case computeLayout was
\* never called; when computeLayout throws, error stays null.
C15_LayoutFailureNeverSetsError ==
    /\ error # Null => (error \in FetchLayerErrors /\ pc = "idle" /\ layoutData = NoValue)
    /\ pc = "thrown" => (error = Null /\ layoutData = NoValue /\ isLoading = FALSE)

C15_Witness ==
    /\ pc = "thrown" /\ pageStep = "mounted" /\ error = Null
    /\ Len(nodes) > 0 /\ isLoading = FALSE

\* positions of the input edges whose key is not in the back-edge set
ForwardEdgeIndexes ==
    {i \in DOMAIN edges : EdgeKey(edges[i].source, edges[i].target) \notin backEdges}

\* the edges handed to the solver, as pairs
SolverEdges == {<<g.edges[i].v, g.edges[i].w>> : i \in DOMAIN g.edges}

\* C16: the edges registered with the solver are exactly the input edges whose
\* key is not in the back-edge set, each with weight equal to its count, and
\* the registered edges contain no directed cycle.
C16_SolverEdgesAreForwardAndAcyclic ==
    GraphBuilt =>
        /\ Len(g.edges) = Cardinality(ForwardEdgeIndexes)
        /\ {g.edges[i] : i \in DOMAIN g.edges}
             = {[v |-> edges[i].source, w |-> edges[i].target, weight |-> edges[i].count] :
                    i \in ForwardEdgeIndexes}
        /\ Acyclic(SolverEdges)

\* the first half of C16 alone
C16_SolverEdgesAreForward ==
    GraphBuilt =>
        /\ Len(g.edges) = Cardinality(ForwardEdgeIndexes)
        /\ {g.edges[i] : i \in DOMAIN g.edges}
             = {[v |-> edges[i].source, w |-> edges[i].target, weight |-> edges[i].count] :
                    i \in ForwardEdgeIndexes}

\* position of key k in the order of registration with the solver
RegistrationIndex(k) == CHOOSE i \in DOMAIN g.nodes : g.nodes[i] = k

\* containers whose declared parent is a key of the map
NestedContainers == {e \in Range(subgraphs) : e.parent # Null /\ e.parent \in SubgraphIds}

\* C17: every container whose parent key exists in the map is registered with
\* the solver, and given its parent, only after the parent container has been
\* registered.
C17_ParentRegisteredBeforeChild ==
    GraphBuilt =>
        \A e \in NestedContainers :
            /\ e.id \in DOMAIN g.parent /\ g.parent[e.id] = e.parent
            /\ RegistrationIndex(e.parent) < RegistrationIndex(e.id)

\* a child written before its parent in the map, already registered
C17_Witness ==
    /\ GraphBuilt
    /\ \E i, j \in DOMAIN subgraphs :
        /\ i < j /\ subgraphs[i].parent = subgraphs[j].id
        /\ RegistrationIndex(subgraphs[j].id) < RegistrationIndex(subgraphs[i].id)

\* the input edges whose key is k
EdgesWithKey(k) == {e \in AllEdges : EdgeKey(e[1], e[2]) = k}

\* t reaches s along input edges (in no step when s = t)
Reaches(t, s) == s \in ReachFrom(AllEdges, {t}, Cardinality(Keys))

\* C18: every key in the back-edge set is the key of an input edge, and the
\* target of that edge reaches its source along input edges, so the edge lies
\* on a directed cycle of the input graph; when the key is added the target
\* is on the active DFS stack.
C18_BackEdgeLiesOnCycle ==
    /\ \A k \in backEdges :
        /\ EdgesWithKey(k) # {}
        /\ \A e \in EdgesWithKey(k) : Reaches(e[2], e[1]) /\ OnCycle(AllEdges, e[1])
    /\ (pc = "dfs" /\ ENABLED DfsBackEdge) =>
            \E i \in DOMAIN stack : stack[i].nodeId = Neighbors(outgoing, Top.nodeId)[Top.i]

\* a back edge that is no self-loop, next to an edge that was not classified
C18_Witness ==
    /\ pc = "backEdgesKnown"
    /\ \E e \in AllEdges : e[1] # e[2] /\ EdgeKey(e[1], e[2]) \in backEdges
    /\ \E e \in AllEdges : EdgeKey(e[1], e[2]) \notin backEdges

NoDuplicates(s) == \A i, j \in DOMAIN s : s[i] = s[j] => i = j

\* the adjacency entries of the keys dfs was entered for
EntriesOfEntered ==
    {<<dfsTrace[t], i>> : t \in DOMAIN dfsTrace, i \in 1..MaxEdges}
        \cap {p \in Keys \X (1..MaxEdges) : p[2] <= Len(Neighbors(outgoing, p[1]))}

\* every entry of the adjacency map
AdjacencyEntries ==
    {p \in Keys \X (1..MaxEdges) : p[2] <= Len(Neighbors(outgoing, p[1]))}

FindBackEdgesReturned == pc = "backEdgesKnown"

\* C19: for every node list and edge list, cycles, self-loops, duplicate
\* edges and edges to unlisted keys included, findBackEdges returns; dfs is
\* entered at most once per key and every adjacency entry is taken by the
\* for-loop of dfs exactly once.
C19_FindBackEdgesTerminates ==
    /\ <>FindBackEdgesReturned
    /\ [](NoDuplicates(dfsTrace) /\ NoDuplicates(examined))
    /\ [](FindBackEdgesReturned =>
            /\ NodeIdSet(nodes) \subseteq Range(dfsTrace)
            /\ Range(examined) = AdjacencyEntries
            /\ Range(examined) = EntriesOfEntered)

\* returned from a graph with a cycle, a duplicate edge and an unlisted key
C19_Witness ==
    /\ FindBackEdgesReturned
    /\ backEdges # {}
    /\ UnknownKey \in Range(dfsTrace)
    /\ \E i, j \in DOMAIN edges : i # j /\ edges[i] = edges[j]

\* the declared parent of container k, Null when it has none
DeclaredParent(k) == SubgraphOf(k).parent

\* the keys on the chain of declared parents of k: its parent, the parent of
\* its parent, and so on while the key is in the map
RECURSIVE ParentChain(_, _)
ParentChain(k, n) ==
    IF n = 0 \/ k \notin SubgraphIds \/ DeclaredParent(k) = Null THEN {}
    ELSE {DeclaredParent(k)} \cup ParentChain(DeclaredParent(k), n - 1)

\* the fallback box of container c has been computed
FallbackBoxDone(c) == c \in DOMAIN padApplied

FlowNodesBuilt == variant = "flow" /\ pc \in {"flowEdges", "flowReturn", "done", "rendered"}

\* the solver gave entity k a centre and a size
HasGeometry(k) ==
    /\ HasDagreNode(k)
    /\ \A f \in {"x", "y", "width", "height"} : dagreOut[k][f] # Undefined

\* solver centre minus half the size
SolverTopLeft(k) ==
    [x |-> dagreOut[k].x - dagreOut[k].width \div 2, y |-> dagreOut[k].y - dagreOut[k].height \div 2]

\* the container the input declares as owner of entity k
DeclaredOwner(k) ==
    IF k \in SubgraphIds THEN SubgraphOf(k).parent
    ELSE (CHOOSE n \in Range(nodes) : n.id = k).subgraph

\* C21: in the output of computeFlowLayout an entity whose parent container
\* exists has position = its absolute top-left minus the absolute top-left of
\* its immediate parent, absolute top-left being solver centre minus half the
\* size; an entity without a parent keeps its absolute top-left.
C21_PositionRelativeToParent ==
    FlowNodesBuilt =>
        \A i \in DOMAIN flowNodes :
            LET k == flowNodes[i].id
                p == DeclaredOwner(k)
            IN  HasGeometry(k) =>
                    IF p # Null /\ p \in SubgraphIds
                    THEN HasGeometry(p) =>
                            /\ flowNodes[i].position.x = SolverTopLeft(k).x - SolverTopLeft(p).x
                            /\ flowNodes[i].position.y = SolverTopLeft(k).y - SolverTopLeft(p).y
                    ELSE flowNodes[i].position = SolverTopLeft(k)

\* a node inside a nested container, both placed away from the origin
C21_Witness ==
    /\ FlowNodesBuilt
    /\ \E i, j \in DOMAIN flowNodes :
        /\ flowNodes[i].type # "group" /\ flowNodes[j].type = "group"
        /\ flowNodes[i].parentId = flowNodes[j].id
        /\ flowNodes[j].parentId # Null
        /\ HasGeometry(flowNodes[j].id) /\ HasGeometry(flowNodes[j].parentId)
        /\ flowNodes[i].position # SolverTopLeft(flowNodes[i].id)
        /\ flowNodes[j].position # SolverTopLeft(flowNodes[j].id)

SvgReturned == variant = "svg" /\ Returned

SvgForwardEdges == {i \in DOMAIN layoutEdges : ~layoutEdges[i].isBackEdge}

\* the number of route points the solver returned for output edge i
RouteLength(i) == dagreEdges[<<layoutEdges[i].source, layoutEdges[i].target>>]

\* C22: a forward edge with both endpoints laid out carries the solver's route
\* points unchanged and in order when the solver returned a route with at
\* least one point, and otherwise exactly the two-point connector from the
\* source's right-centre to the target's left-centre; a back edge is never
\* looked up in the solver's routes and runs from anchor to anchor.
C22_ForwardEdgeUsesSolverRoute ==
    SvgReturned =>
        /\ \A i \in SvgForwardEdges :
            /\ <<layoutEdges[i].source, layoutEdges[i].target>> \in DOMAIN dagreEdges
            /\ IF RouteLength(i) > 0
               THEN layoutEdges[i].points
                        = SolverRoute(layoutEdges[i].source, layoutEdges[i].target, RouteLength(i))
               ELSE layoutEdges[i].points = <<SvgStart(i), SvgEnd(i)>>
        /\ \A i \in SvgBackEdges :
            /\ <<layoutEdges[i].source, layoutEdges[i].target>> \notin DOMAIN dagreEdges
            /\ Len(layoutEdges[i].points) = 6
            /\ layoutEdges[i].points[1] = SvgStart(i)
            /\ layoutEdges[i].points[6] = SvgEnd(i)

\* one layout with a routed forward edge, an unrouted one and a back edge
C22_Witness ==
    /\ SvgReturned
    /\ \E i \in SvgForwardEdges : RouteLength(i) = MaxRoute
    /\ \E i \in SvgForwardEdges : RouteLength(i) = 0
    /\ SvgBackEdges # {}

\* in the BackEdge component the label sits at the middle of the top segment
C23_BackEdgeComponentLabel ==
    (variant = "flow" /\ pc = "rendered") =>
        \A i \in DOMAIN backEdgePaths :
            LET b == backEdgePaths[i] IN
            /\ b.label.x2 = b.path[6].x + b.path[9].x
            /\ b.label.y = b.path[6].y /\ b.label.y = b.path[9].y

\* back edges of the SVG renderer that show a multiplicity label
SvgLabelledBackEdges == {i \in DOMAIN edgeLabels : layoutEdges[i].isBackEdge /\ edgeLabels[i].label # 0}

\* C23: the multiplicity label of a back edge is anchored at the midpoint of
\* the top segment of its loop (x the mean of the two top-corner x, y the top
\* y of the arc), in the BackEdge component and in the SVG Graph renderer.
C23_LabelAtTopOfLoop ==
    /\ C23_BackEdgeComponentLabel
    /\ (variant = "svg" /\ pc = "rendered") =>
        \A i \in SvgLabelledBackEdges :
            LET pts == layoutEdges[i].points IN
            /\ edgeLabels[i].x2 = pts[3].x + pts[4].x
            /\ edgeLabels[i].y2 = 2 * pts[3].y

\* containers whose box, if any, comes from the fallback aggregation
FallbackContainers == {c \in SubgraphIds : ~SolverSized(c)}

OwnsNode(c) == \E i \in DOMAIN nodes : nodes[i].subgraph = c

BoxedDescendants(c) == getAllDescendantSubgraphs(c) \cap DOMAIN subgraphBoxes

GrandchildBoxed ==
    /\ SvgReturned
    /\ \E c \in FallbackContainers \cap DOMAIN subgraphBoxes :
        /\ ~OwnsNode(c)
        /\ \E d \in BoxedDescendants(c) : d \notin ChildSubgraphs(c)

C25_ParentGroupPrecedesChild ==
    FlowNodesBuilt =>
        \A i \in DOMAIN flowNodes :
            flowNodes[i].parentId # Null =>
                \E j \in 1..(i - 1) :
                    flowNodes[j].id = flowNodes[i].parentId /\ flowNodes[j].type = "group"

\* a nested group written before its parent in the map, and a node in a group
C25_Witness ==
    /\ FlowNodesBuilt
    /\ \E i, j \in DOMAIN subgraphs : i < j /\ subgraphs[i].parent = subgraphs[j].id
    /\ \E i \in DOMAIN flowNodes : flowNodes[i].type = "group" /\ flowNodes[i].parentId # Null
    /\ \E i \in DOMAIN flowNodes : flowNodes[i].type # "group" /\ flowNodes[i].parentId # Null

\* C26: every edge in computeLayout's output has at least two path points,
\* whatever route the solver returned for a forward edge, so its first and
\* last points are defined and generateEdgePath gives a non-empty path.
C26_EveryEdgeHasTwoPoints ==
    /\ SvgReturned => \A i \in DOMAIN layoutEdges : Len(layoutEdges[i].points) >= 2
    /\ (variant = "svg" /\ pc = "rendered") => \A i \in DOMAIN edgePaths : edgePaths[i] # <<>>

\* what holds of the code: no output edge is without a point, and an edge has
\* fewer than two only when the solver's route for it has exactly one
C26_OnePointOnlyFromSolver ==
    SvgReturned =>
        \A i \in DOMAIN layoutEdges :
            /\ Len(layoutEdges[i].points) >= 1
            /\ Len(layoutEdges[i].points) < 2 => (~layoutEdges[i].isBackEdge /\ RouteLength(i) = 1)

\* C27: entries at different positions of the input edge list get different
\* identifiers in the output: the flow edge ids are pairwise different, and
\* so are the keys of the SVG renderer's each-block.
C27_EdgeIdsUnique ==
    /\ (variant = "flow" /\ Returned) =>
        \A i, j \in DOMAIN flowEdges : i # j => flowEdges[i].id # flowEdges[j].id
    /\ (variant = "svg" /\ pc = "rendered") =>
        \A i, j \in DOMAIN edgeLabels : i # j => edgeLabels[i].key # edgeLabels[j].key

\* two different edges whose identifiers coincide
C27_DifferentEdgesSameId ==
    /\ variant = "flow" /\ Returned
    /\ \E i, j \in DOMAIN flowEdges :
        /\ flowEdges[i].source # flowEdges[j].source
        /\ flowEdges[i].id = flowEdges[j].id

\* C28: after any sequence of handleNodeSelect, handleBackgroundClick and
\* closeDetailsPanel calls, an open details panel comes with a non-null
\* selectedNodeId, and a non-null selectedNode has the id selectedNodeId;
\* closeDetailsPanel changes nothing but isDetailsPanelOpen.
C28_SelectionStateConsistent ==
    /\ [](isDetailsPanelOpen => selectedNodeId # Null)
    /\ [](selectedNode # NoValue => selectedNode[1].id = selectedNodeId)
    /\ [][closeDetailsPanel =>
            UNCHANGED <<selectedNodeId, selectedNode, graphData, layoutData, modelSummary,
                        isLoading, error>>]_vars

\* the panel closed after a click on a node, the selection still in place
C28_Witness ==
    /\ ~isDetailsPanelOpen
    /\ selectedNode # NoValue /\ selectedNodeId = "b"
    /\ pageStep = "mounted" /\ layoutData # NoValue

\* the onMount callback has run to its end, finally block included
MountFinished == pageStep = "mounted"

\* the branch of the main area that is rendered
MainShows ==
    IF isLoading /\ layoutData = NoValue THEN "loading"
    ELSE IF error # Null THEN "error"
    ELSE IF layoutData # NoValue THEN "graph"
    ELSE "nothing"

\* C29: once the mount sequence has finished, on any path, isLoading is
\* false and the main area shows the error state or the graph: isLoading
\* false, error null and layoutData null never hold together.
C29_MountEndsInErrorOrGraph ==
    MountFinished =>
        /\ isLoading = FALSE
        /\ ~(error = Null /\ layoutData = NoValue)
        /\ MainShows \in {"error", "graph"}

\* what holds on every path: the mount sequence ends with isLoading false,
\* and the main area is empty only after computeLayout has thrown
C29_EmptyOnlyAfterLayoutThrew ==
    MountFinished =>
        /\ isLoading = FALSE
        /\ MainShows = "nothing" <=> pc = "thrown"

\* no effect of the flow Graph component is waiting to run
EffectsSettled == effectsPending = {}

\* what the selection effect must not touch: position, size and parentId of every node
NodeGeometry(ns) ==
    [i \in DOMAIN ns |-> [id |-> ns[i].id, position |-> ns[i].position, width |-> ns[i].width,
                          height |-> ns[i].height, parentId |-> ns[i].parentId]]

\* a step in which the selection effect ran
SelectionEffectRan == "selection" \in effectsPending /\ "selection" \notin effectsPending'

\* C30: in the flow Graph component, once the effects have run after any
\* sequence of layoutData and selectedNodeId changes, a node has selected =
\* true exactly when its id equals selectedNodeId; and the run of the
\* selection effect that follows a change of selectedNodeId alone leaves
\* every node's position, size and parentId and the edge list unchanged.
C30_SelectedFollowsSelectedNodeId ==
    /\ [](EffectsSettled =>
            \A i \in DOMAIN stateNodes : stateNodes[i].selected <=> stateNodes[i].id = propSelectedNodeId)
    /\ [][SelectionEffectRan =>
            /\ NodeGeometry(stateNodes') = NodeGeometry(stateNodes)
            /\ stateEdges' = stateEdges]_vars

\* the effects have settled on a selected node of a layout that is no longer
\* the one passed in, with a node still where the user dragged it
C30_Witness ==
    /\ EffectsSettled
    /\ propSelectedNodeId = "a"
    /\ lastLayoutDataRef # 0 /\ lastLayoutDataRef # propLayoutData[1].ref
    /\ \E i \in DOMAIN stateNodes : stateNodes[i].id = "a" /\ stateNodes[i].selected
    /\ \E i \in DOMAIN stateNodes : stateNodes[i].position = DragPosition

====
